---- MODULE Spec2Model ----
(***************************************************************************)
(* A model of the HdrHistogram C sources:                                  *)
(*   - hdr_writer_reader_phaser.h : writer_enter / writer_exit /           *)
(*     reader_lock / reader_unlock / flip_phase                            *)
(*   - hdr_interval_recorder.h    : update / sample                        *)
(*   - hdr_histogram.c            : bucket geometry, hdrh_alloc,           *)
(*     hdrh_record_value, hdrh_record_corrected_value                      *)
(*     the iterators                                                       *)
(*   - hdr_atomic_histogram.c     : _atomic_increment, the min/max update  *)
(*   - hdr_histogram_log.c        : base64_encode / base64_decode,         *)
(*     hdr_encode_compressed / hdr_decode_compressed                       *)
(*     parse_log_comments / hdr_parse_log                                  *)
(*                                                                         *)
(* The specifications share the variables:                                 *)
(*   Spec       writers calling hdr_interval_recorder_update and readers   *)
(*              calling reader_lock; flip_phase; reader_unlock             *)
(*   SpecRec    the same writers and readers calling                       *)
(*              hdr_interval_recorder_sample                               *)
(*   SpecHist   a single thread recording into one histogram               *)
(*   SpecQuery  a histogram loaded, then read with value_at_percentile,    *)
(*              max and min                                                *)
(*   SpecRange  the equivalent-value functions applied to pairs of values  *)
(*   SpecAlloc  hdrh_alloc called with any significant_figures             *)
(*   SpecCodec  a histogram loaded, encoded and decoded                    *)
(*   SpecBase64 a byte string encoded and decoded                          *)
(*   SpecAtomic several threads calling _atomic_increment                  *)
(*   SpecMinMax, SpecMinMaxFair  several threads updating min_value and    *)
(*              max_value by compare and exchange                          *)
(*   SpecIter   a histogram loaded, then walked with hdrh_iter_next        *)
(*   SpecPercentiles  a histogram loaded, then walked by percentile        *)
(*   SpecDecode an encoded histogram decoded with one step failing         *)
(*   SpecLog    the head of a log file read by hdr_parse_log               *)
(***************************************************************************)
EXTENDS Integers, Sequences, FiniteSets, TLC

(***************************************************************************)
(* 64-bit integers.  TLC's integers are 32 bits wide, so an int64_t epoch  *)
(* is kept as its two's-complement bit pattern in four 16-bit limbs, most  *)
(* significant first.  The phaser only adds one, tests the sign and tests  *)
(* equality, and all three are exact on this representation.               *)
(***************************************************************************)
Limb == 2 ^ 16

I64Zero == <<0, 0, 0, 0>>

\* INT64_MAX = 0x7FFFFFFFFFFFFFFF
INT64_MAX == <<Limb \div 2 - 1, Limb - 1, Limb - 1, Limb - 1>>

\* x + 1 on 64 bits, wrapping as the hardware fetch-add does
I64Inc(x) ==
    IF x[4] < Limb - 1 THEN <<x[1], x[2], x[3], x[4] + 1>>
    ELSE IF x[3] < Limb - 1 THEN <<x[1], x[2], x[3] + 1, 0>>
    ELSE IF x[2] < Limb - 1 THEN <<x[1], x[2] + 1, 0, 0>>
    ELSE <<(x[1] + 1) % Limb, 0, 0, 0>>

\* x < 0 for a signed 64-bit x
I64Neg(x) == x[1] >= Limb \div 2

(***************************************************************************)
(* Bounds of the model.                                                    *)
(***************************************************************************)
\* total number of hdr_phaser_writer_enter calls in a behaviour
MaxEnter == 3
\* total number of flip_phase calls in a behaviour
MaxFlip == 3

Writers == {"w1", "w2"}
Readers == {"r1", "r2"}
\* the two histograms the caller stores in r->active and r->inactive
Hists == {"H1", "H2"}

VARIABLES
    \* struct hdr_writer_reader_phaser
    start_epoch, even_end_epoch, odd_end_epoch, reader_mutex,
    \* struct hdr_interval_recorder
    active, inactive,
    \* number of update_action calls applied to each histogram
    applied,
    \* writer threads: position, token (val), loaded pointer (active)
    wpc, val, wactive,
    \* reader threads: position and the locals of flip_phase / sample
    rpc, rloc,
    \* history: calls made so far, and what each sample returned
    nEnter, nFlip, owed, sCalled, sReturned, retHist, wmark, cutLog, lastFlip

pvars == <<start_epoch, even_end_epoch, odd_end_epoch, reader_mutex,
           active, inactive, applied, wpc, val, wactive, rpc, rloc,
           nEnter, nFlip, owed, sCalled, sReturned, retHist, wmark, cutLog,
           lastFlip>>

\* the histogram of SpecHist: its geometry (fixed by hdrh_alloc), its counts
\* and total_count, the build (NDEBUG or not), whether an assertion ended the
\* program, the history of the calls made (their number, the recordings and
\* the values stored, the last call), and the last query with its result
VARIABLES
    h, counts, total_count, NDEBUG, aborted, assertFailed, hcalls, stored,
    last, recorded, query

hvars == <<h, counts, total_count, NDEBUG, aborted, assertFailed, hcalls,
           stored, last, recorded, query>>

\* the atomic histogram of SpecAtomic: counts, total_count, each thread's
\* position and arguments, the sum of the increments issued per index, and
\* whether two calls have been in progress at once
VARIABLES
    acounts, atotal, apc, aarg, issued, nInc, overlap

avars == <<acounts, atotal, apc, aarg, issued, nInc, overlap>>

\* a call of a function of the library that reads no shared state: the
\* function, its arguments and, once it has returned, its results
VARIABLES call

fvars == <<call>>

vars == <<pvars, hvars, avars, fvars>>

(***************************************************************************)
(* hdr_writer_reader_phaser.h                                              *)
(***************************************************************************)
\* the locals of one flip_phase / sample call before it assigns them
NoLocals ==
    [start_epoch |-> I64Zero, next_phase_is_even |-> FALSE,
     initial_start_value |-> I64Zero, start_value_at_flip |-> I64Zero,
     current |-> I64Zero, temp |-> "H1"]

NoMark == [called |-> 0, returned |-> 0, atLoad |-> 0, expect |-> "none"]

\* hdr_writer_reader_phaser_init, and the caller's set-up of the recorder
hdr_writer_reader_phaser_init ==
    /\ start_epoch = I64Zero
    /\ even_end_epoch = I64Zero
    /\ odd_end_epoch = INT64_MAX
    /\ reader_mutex = "free"
    /\ active = "H1"
    /\ inactive = "H2"
    /\ applied = [x \in Hists |-> 0]
    /\ wpc = [w \in Writers |-> "idle"]
    /\ val = [w \in Writers |-> I64Zero]
    /\ wactive = [w \in Writers |-> "H1"]
    /\ rpc = [r \in Readers |-> "idle"]
    /\ rloc = [r \in Readers |-> NoLocals]
    /\ nEnter = 0
    /\ nFlip = 0
    /\ owed = [r \in Readers |-> {}]
    /\ sCalled = 0
    /\ sReturned = 0
    /\ retHist = <<>>
    /\ wmark = [w \in Writers |-> NoMark]
    /\ cutLog = {}
    /\ lastFlip = [state |-> "none", oldNeg |-> FALSE]

\* writers between writer_enter and writer_exit
InCritical == {w \in Writers : wpc[w] # "idle"}

\* the sign the claim of the new phase expects of a token issued now
ExpectedSign ==
    IF lastFlip.state = "returned"
    THEN (IF lastFlip.oldNeg THEN "nonneg" ELSE "neg")
    ELSE "none"

\* which end epoch writer_exit credits: odd when the token is negative
end_epoch_is_odd(critical_value_at_enter) == I64Neg(critical_value_at_enter)

\* hdr_phaser_writer_enter: r = fetch_add(&p->start_epoch, 1)
hdr_phaser_writer_enter(w) ==
    /\ UNCHANGED <<hvars, avars, fvars>>
    /\ wpc[w] = "idle"
    /\ nEnter < MaxEnter
    /\ val' = [val EXCEPT ![w] = start_epoch]
    /\ start_epoch' = I64Inc(start_epoch)
    /\ wpc' = [wpc EXCEPT ![w] = "entered"]
    /\ nEnter' = nEnter + 1
    /\ wmark' = [wmark EXCEPT ![w] =
                    [called |-> sCalled, returned |-> sReturned,
                     atLoad |-> 0, expect |-> ExpectedSign]]
    /\ UNCHANGED <<even_end_epoch, odd_end_epoch, reader_mutex, active,
                   inactive, applied, wactive, rpc, rloc, nFlip, owed,
                   sCalled, sReturned, retHist, cutLog, lastFlip>>

\* a variant of update that reads r->active only while no reader holds the
\* reader mutex
update_load_active_locked(w) ==
    /\ UNCHANGED <<hvars, avars, fvars>>
    /\ reader_mutex = "free"
    /\ wpc[w] = "entered"
    /\ wactive' = [wactive EXCEPT ![w] = active]
    /\ wpc' = [wpc EXCEPT ![w] = "loaded"]
    /\ wmark' = [wmark EXCEPT ![w].atLoad = sCalled]
    /\ UNCHANGED <<start_epoch, even_end_epoch, odd_end_epoch, reader_mutex,
                   active, inactive, applied, val, rpc, rloc, nEnter, nFlip,
                   owed, sCalled, sReturned, retHist, cutLog, lastFlip>>

\* hdr_interval_recorder_update: active = load(&r->active)
update_load_active(w) ==
    /\ UNCHANGED <<hvars, avars, fvars>>
    /\ wpc[w] = "entered"
    /\ wactive' = [wactive EXCEPT ![w] = active]
    /\ wpc' = [wpc EXCEPT ![w] = "loaded"]
    /\ wmark' = [wmark EXCEPT ![w].atLoad = sCalled]
    /\ UNCHANGED <<start_epoch, even_end_epoch, odd_end_epoch, reader_mutex,
                   active, inactive, applied, val, rpc, rloc, nEnter, nFlip,
                   owed, sCalled, sReturned, retHist, cutLog, lastFlip>>

\* hdr_interval_recorder_update: update_action(active, arg)
update_action(w) ==
    /\ UNCHANGED <<hvars, avars, fvars>>
    /\ wpc[w] = "loaded"
    /\ applied' = [applied EXCEPT ![wactive[w]] = @ + 1]
    /\ wpc' = [wpc EXCEPT ![w] = "acted"]
    /\ UNCHANGED <<start_epoch, even_end_epoch, odd_end_epoch, reader_mutex,
                   active, inactive, val, wactive, rpc, rloc, nEnter, nFlip,
                   owed, sCalled, sReturned, retHist, wmark, cutLog, lastFlip>>

\* hdr_phaser_writer_exit: fetch_add(end_epoch, 1); update() then returns
hdr_phaser_writer_exit(w) ==
    /\ UNCHANGED <<hvars, avars, fvars>>
    /\ wpc[w] = "acted"
    /\ IF end_epoch_is_odd(val[w])
       THEN /\ odd_end_epoch' = I64Inc(odd_end_epoch)
            /\ UNCHANGED even_end_epoch
       ELSE /\ even_end_epoch' = I64Inc(even_end_epoch)
            /\ UNCHANGED odd_end_epoch
    /\ wpc' = [wpc EXCEPT ![w] = "idle"]
    /\ owed' = [r \in Readers |-> owed[r] \ {w}]
    \* an update that ran wholly between two samples
    /\ cutLog' = IF wmark[w].called = wmark[w].returned
                    /\ wmark[w].called = sCalled
                 THEN cutLog \cup {<<sCalled, wactive[w]>>}
                 ELSE cutLog
    /\ UNCHANGED <<start_epoch, reader_mutex, active, inactive, applied, val,
                   wactive, rpc, rloc, nEnter, nFlip, sCalled, sReturned,
                   retHist, wmark, lastFlip>>

hdr_interval_recorder_update(w) ==
    \/ hdr_phaser_writer_enter(w)
    \/ update_load_active(w)
    \/ update_action(w)
    \/ hdr_phaser_writer_exit(w)

\* hdr_phaser_reader_lock, by a caller about to flip
hdr_phaser_reader_lock(r) ==
    /\ UNCHANGED <<hvars, avars, fvars>>
    /\ rpc[r] = "idle"
    /\ nFlip < MaxFlip
    /\ reader_mutex = "free"
    /\ reader_mutex' = r
    /\ rpc' = [rpc EXCEPT ![r] = "flip"]
    /\ UNCHANGED <<start_epoch, even_end_epoch, odd_end_epoch, active,
                   inactive, applied, wpc, val, wactive, rloc, nEnter, nFlip,
                   owed, sCalled, sReturned, retHist, wmark, cutLog, lastFlip>>

\* hdr_phaser_reader_unlock, by the caller after flip_phase returned
hdr_phaser_reader_unlock(r) ==
    /\ UNCHANGED <<hvars, avars, fvars>>
    /\ rpc[r] = "flipped"
    /\ reader_mutex' = "free"
    /\ rpc' = [rpc EXCEPT ![r] = "idle"]
    /\ UNCHANGED <<start_epoch, even_end_epoch, odd_end_epoch, active,
                   inactive, applied, wpc, val, wactive, rloc, nEnter, nFlip,
                   owed, sCalled, sReturned, retHist, wmark, cutLog, lastFlip>>

\* the sentinel flip_phase gives the incoming phase
initial_start_value_for(next_phase_is_even) ==
    IF next_phase_is_even THEN I64Zero ELSE INT64_MAX

\* flip_phase: start_epoch = get_epoch(&p->start_epoch);
\*             next_phase_is_even = (start_epoch < 0)
flip_phase_get_epoch(r) ==
    /\ UNCHANGED <<hvars, avars, fvars>>
    /\ rpc[r] = "flip"
    /\ rloc' = [rloc EXCEPT ![r].start_epoch = start_epoch,
                            ![r].next_phase_is_even = I64Neg(start_epoch),
                            ![r].initial_start_value =
                                initial_start_value_for(I64Neg(start_epoch))]
    /\ rpc' = [rpc EXCEPT ![r] = "f_set"]
    /\ nFlip' = nFlip + 1
    /\ lastFlip' = [lastFlip EXCEPT !.state = "running"]
    /\ UNCHANGED <<start_epoch, even_end_epoch, odd_end_epoch, reader_mutex,
                   active, inactive, applied, wpc, val, wactive, nEnter, owed,
                   sCalled, sReturned, retHist, wmark, cutLog>>

\* flip_phase: set_epoch(the incoming phase's end epoch, initial_start_value)
flip_phase_set_epoch(r) ==
    /\ UNCHANGED <<hvars, avars, fvars>>
    /\ rpc[r] = "f_set"
    /\ IF rloc[r].next_phase_is_even
       THEN /\ even_end_epoch' = rloc[r].initial_start_value
            /\ UNCHANGED odd_end_epoch
       ELSE /\ odd_end_epoch' = rloc[r].initial_start_value
            /\ UNCHANGED even_end_epoch
    /\ rpc' = [rpc EXCEPT ![r] = "f_reset"]
    /\ UNCHANGED <<start_epoch, reader_mutex, active, inactive, applied, wpc,
                   val, wactive, rloc, nEnter, nFlip, owed, sCalled,
                   sReturned, retHist, wmark, cutLog, lastFlip>>

\* _hdr_phaser_reset_epoch: current = get_epoch(field)
reset_epoch_get(r) ==
    /\ UNCHANGED <<hvars, avars, fvars>>
    /\ rpc[r] = "f_reset"
    /\ rloc' = [rloc EXCEPT ![r].current = start_epoch]
    /\ rpc' = [rpc EXCEPT ![r] = "f_cas"]
    /\ UNCHANGED <<start_epoch, even_end_epoch, odd_end_epoch, reader_mutex,
                   active, inactive, applied, wpc, val, wactive, nEnter,
                   nFlip, owed, sCalled, sReturned, retHist, wmark, cutLog,
                   lastFlip>>

\* _hdr_phaser_reset_epoch: compare_exchange(field, current, initial_value),
\* retried while it fails
reset_epoch_compare_exchange(r) ==
    /\ UNCHANGED <<hvars, avars, fvars>>
    /\ rpc[r] = "f_cas"
    /\ IF start_epoch = rloc[r].current
       THEN /\ start_epoch' = rloc[r].initial_start_value
            /\ rloc' = [rloc EXCEPT ![r].start_value_at_flip = start_epoch]
            /\ rpc' = [rpc EXCEPT ![r] = "f_spin"]
            /\ owed' = [owed EXCEPT ![r] = InCritical]
            /\ lastFlip' = [lastFlip EXCEPT !.oldNeg = I64Neg(start_epoch)]
       ELSE /\ rpc' = [rpc EXCEPT ![r] = "f_reset"]
            /\ UNCHANGED <<start_epoch, rloc, owed, lastFlip>>
    /\ UNCHANGED <<even_end_epoch, odd_end_epoch, reader_mutex, active,
                   inactive, applied, wpc, val, wactive, nEnter, nFlip,
                   sCalled, sReturned, retHist, wmark, cutLog>>

\* flip_phase: caught_up = (the outgoing phase's end epoch ==
\* start_value_at_flip)
caught_up(r) ==
    IF rloc[r].next_phase_is_even
    THEN odd_end_epoch = rloc[r].start_value_at_flip
    ELSE even_end_epoch = rloc[r].start_value_at_flip

\* flip_phase: the do-while loop ends once caught_up; an iteration that is
\* not caught up yields and leaves the state as it is
flip_phase_caught_up(r) ==
    /\ UNCHANGED <<hvars, avars, fvars>>
    /\ rpc[r] = "f_spin"
    /\ caught_up(r)
    /\ rpc' = [rpc EXCEPT ![r] = "flipped"]
    /\ lastFlip' = [lastFlip EXCEPT !.state = "returned"]
    /\ UNCHANGED <<start_epoch, even_end_epoch, odd_end_epoch, reader_mutex,
                   active, inactive, applied, wpc, val, wactive, rloc, nEnter,
                   nFlip, owed, sCalled, sReturned, retHist, wmark, cutLog>>

hdr_phaser_flip_phase(r) ==
    \/ flip_phase_get_epoch(r)
    \/ flip_phase_set_epoch(r)
    \/ reset_epoch_get(r)
    \/ reset_epoch_compare_exchange(r)
    \/ flip_phase_caught_up(r)

(***************************************************************************)
(* hdr_interval_recorder.h                                                 *)
(***************************************************************************)
\* sample: hdr_phaser_reader_lock.  sample never unlocks, so a second call
\* by the owner locks a mutex it holds: it goes on where the platform's
\* mutex is recursive and hangs (never takes this step) where it is not.
sample_reader_lock(r) ==
    /\ UNCHANGED <<hvars, avars, fvars>>
    /\ rpc[r] = "idle"
    /\ nFlip < MaxFlip
    /\ reader_mutex \in {"free", r}
    /\ reader_mutex' = r
    /\ rpc' = [rpc EXCEPT ![r] = "swap"]
    /\ sCalled' = sCalled + 1
    /\ UNCHANGED <<start_epoch, even_end_epoch, odd_end_epoch, active,
                   inactive, applied, wpc, val, wactive, rloc, nEnter, nFlip,
                   owed, sReturned, retHist, wmark, cutLog, lastFlip>>

\* sample: temp = r->inactive; r->inactive = load(&r->active)
sample_load_active(r) ==
    /\ UNCHANGED <<hvars, avars, fvars>>
    /\ rpc[r] = "swap"
    /\ rloc' = [rloc EXCEPT ![r].temp = inactive]
    /\ inactive' = active
    /\ rpc' = [rpc EXCEPT ![r] = "store"]
    /\ UNCHANGED <<start_epoch, even_end_epoch, odd_end_epoch, reader_mutex,
                   active, applied, wpc, val, wactive, nEnter, nFlip, owed,
                   sCalled, sReturned, retHist, wmark, cutLog, lastFlip>>

\* sample: store(&r->active, temp); flip_phase is called next
sample_store_active(r) ==
    /\ UNCHANGED <<hvars, avars, fvars>>
    /\ rpc[r] = "store"
    /\ active' = rloc[r].temp
    /\ rpc' = [rpc EXCEPT ![r] = "flip"]
    /\ UNCHANGED <<start_epoch, even_end_epoch, odd_end_epoch, reader_mutex,
                   inactive, applied, wpc, val, wactive, rloc, nEnter, nFlip,
                   owed, sCalled, sReturned, retHist, wmark, cutLog, lastFlip>>

\* a variant of sample that returns the histogram it has just made active
sample_result_temp(r) == rloc[r].temp

\* what sample returns
sample_result(r) == inactive

\* sample: return r->inactive
sample_return(r) ==
    /\ UNCHANGED <<hvars, avars, fvars>>
    /\ rpc[r] = "flipped"
    /\ retHist' = Append(retHist, sample_result(r))
    /\ sReturned' = sReturned + 1
    /\ rpc' = [rpc EXCEPT ![r] = "idle"]
    /\ UNCHANGED <<start_epoch, even_end_epoch, odd_end_epoch, reader_mutex,
                   active, inactive, applied, wpc, val, wactive, rloc, nEnter,
                   nFlip, owed, sCalled, wmark, cutLog, lastFlip>>

(***************************************************************************)
(* hdr_histogram.c: bucket geometry.  Values of the model are below 2^31   *)
(* in magnitude, where TLC's integers agree with int64_t.                  *)
(***************************************************************************)
RECURSIVE BitLen(_)
\* the number of significant bits of x >= 0, i.e. 64 - __lzcnt64(x)
BitLen(x) == IF x = 0 THEN 0 ELSE 1 + BitLen(x \div 2)

RECURSIVE BitOr(_, _)
\* a | b for a, b >= 0
BitOr(a, b) ==
    IF a = 0 THEN b
    ELSE IF b = 0 THEN a
    ELSE (IF a % 2 = 1 \/ b % 2 = 1 THEN 1 ELSE 0)
             + 2 * BitOr(a \div 2, b \div 2)

\* __lzcnt64(value | mask): a negative value keeps its sign bit under the or
Lzcnt64Or(value, mask) ==
    IF value < 0 THEN 0 ELSE 64 - BitLen(BitOr(value, mask))

\* value >> n on int64_t (arithmetic shift), for |value| < 2^31
Shr(value, n) ==
    IF n >= 31 THEN (IF value < 0 THEN -1 ELSE 0)
    ELSE IF value >= 0 THEN value \div (2 ^ n)
    ELSE -(((-value) - 1) \div (2 ^ n)) - 1

get_bucket_index(hh, value) ==
    LET pow2ceiling == 64 - Lzcnt64Or(value, hh.sub_bucket_mask)
    IN  pow2ceiling - (hh.sub_bucket_half_count_magnitude + 1)

get_sub_bucket_index(value, bucket_index) == Shr(value, bucket_index)

\* the three assertions of counts_index
counts_index_asserts(hh, bucket_index, sub_bucket_index) ==
    /\ bucket_index < hh.bucket_count
    /\ sub_bucket_index < hh.sub_bucket_count
    /\ (bucket_index = 0 \/ sub_bucket_index >= hh.sub_bucket_half_count)

counts_index(hh, bucket_index, sub_bucket_index) ==
    LET bucket_base_index ==
            (bucket_index + 1) * (2 ^ hh.sub_bucket_half_count_magnitude)
        offset_in_bucket == sub_bucket_index - hh.sub_bucket_half_count
    IN  bucket_base_index + offset_in_bucket

counts_index_for(hh, value) ==
    LET bucket_index == get_bucket_index(hh, value)
        sub_bucket_index == get_sub_bucket_index(value, bucket_index)
    IN  counts_index(hh, bucket_index, sub_bucket_index)

\* ((int64_t) sub_bucket_index) << bucket_index
value_from_index(bucket_index, sub_bucket_index) ==
    sub_bucket_index * (2 ^ bucket_index)

\* a range twice as wide as the bucket's
size_of_range_doubled(hh, value) ==
    2 ^ (get_bucket_index(hh, value) + 1)

size_of_equivalent_value_range(hh, value) ==
    LET bucket_index == get_bucket_index(hh, value)
        sub_bucket_index == get_sub_bucket_index(value, bucket_index)
    IN  2 ^ (IF sub_bucket_index >= hh.sub_bucket_count
             THEN bucket_index + 1 ELSE bucket_index)

lowest_equivalent_value(hh, value) ==
    LET bucket_index == get_bucket_index(hh, value)
        sub_bucket_index == get_sub_bucket_index(value, bucket_index)
    IN  value_from_index(bucket_index, sub_bucket_index)

next_non_equivalent_value(hh, value) ==
    lowest_equivalent_value(hh, value)
        + size_of_equivalent_value_range(hh, value)

\* a highest value that is one too far: the next range's lowest value
highest_equivalent_value_next(hh, value) ==
    lowest_equivalent_value(hh, value)
        + size_of_equivalent_value_range(hh, value)

highest_equivalent_value(hh, value) ==
    next_non_equivalent_value(hh, value) - 1

\* an equivalence that holds of equal values only
values_are_equal(hh, a, b) == a = b

hdrh_values_are_equivalent(hh, a, b) ==
    lowest_equivalent_value(hh, a) = lowest_equivalent_value(hh, b)

(***************************************************************************)
(* hdr_histogram.c: hdrh_alloc                                             *)
(***************************************************************************)
RECURSIVE power(_, _)
power(base, exp) == IF exp = 0 THEN 1 ELSE base * power(base, exp - 1)

RECURSIVE CeilLog2From(_, _)
CeilLog2From(x, k) == IF 2 ^ k >= x THEN k ELSE CeilLog2From(x, k + 1)

\* (int32_t) ceil(log(x) / log(2))
CeilLog2(x) == CeilLog2From(x, 0)

\* hdrh_alloc's result code: -1 when significant_figures is refused
hdrh_alloc_rc(significant_figures) ==
    IF significant_figures < 3 \/ 6 < significant_figures THEN -1 ELSE 0

RECURSIVE buckets_needed(_, _, _)
\* while (trackable_value < highest) { trackable_value <<= 1; needed++; }
buckets_needed(trackable_value, highest_trackable_value, needed) ==
    IF trackable_value < highest_trackable_value
    THEN buckets_needed(trackable_value * 2, highest_trackable_value,
                        needed + 1)
    ELSE needed

\* the histogram hdrh_alloc builds (its counts are zeroed, total_count = 0)
hdrh_alloc(highest_trackable_value, significant_figures) ==
    LET largest_value_with_single_unit_resolution ==
            2 * power(10, significant_figures)
        sub_bucket_count_magnitude ==
            CeilLog2(largest_value_with_single_unit_resolution)
        sub_bucket_half_count_magnitude ==
            (IF sub_bucket_count_magnitude > 1
             THEN sub_bucket_count_magnitude ELSE 1) - 1
        sub_bucket_count == 2 ^ (sub_bucket_half_count_magnitude + 1)
        bucket_count ==
            buckets_needed(sub_bucket_count - 1, highest_trackable_value, 1)
    IN  [highest_trackable_value |-> highest_trackable_value,
         significant_figures |-> significant_figures,
         sub_bucket_half_count_magnitude |-> sub_bucket_half_count_magnitude,
         sub_bucket_half_count |-> sub_bucket_count \div 2,
         sub_bucket_mask |-> sub_bucket_count - 1,
         sub_bucket_count |-> sub_bucket_count,
         bucket_count |-> bucket_count,
         counts_len |-> (bucket_count + 1) * (sub_bucket_count \div 2)]

(***************************************************************************)
(* hdr_histogram.c: recording.  The counts array is zeroed by hdrh_alloc   *)
(* and kept here as the function from the indices recorded so far to       *)
(* their counts; every other index holds 0.                                *)
(***************************************************************************)
\* calls made to the histogram in a behaviour
MaxCalls == 3

\* <<highest_trackable_value, significant_figures>> of the histograms
Geometries == {<<2047, 3>>, <<3000, 3>>, <<40000, 4>>}

\* the values recorded
Values == {-1, 0, 1000, 2048, 3000, 3500, 4096, 65536}

\* the expected intervals of record_corrected
Intervals == {0, 1000}

CountAt(c, i) == IF i \in DOMAIN c THEN c[i] ELSE 0

\* c with counts[i]++
Bump(c, i) ==
    [j \in (DOMAIN c) \cup {i} |-> CountAt(c, j) + (IF j = i THEN 1 ELSE 0)]

RECURSIVE SumCounts(_, _)
SumCounts(c, idx) ==
    IF idx = {} THEN 0
    ELSE LET i == CHOOSE j \in idx : TRUE
         IN  c[i] + SumCounts(c, idx \ {i})

\* the state one call works on
HState ==
    [counts |-> counts, total_count |-> total_count, stored |-> stored,
     recorded |-> recorded, aborted |-> aborted,
     assertFailed |-> assertFailed, ret |-> "none"]

\* a record_value that forgets total_count
record_value_no_total(st, hh, ndebug, value) ==
    LET bucket_index == get_bucket_index(hh, value)
        sub_bucket_index == get_sub_bucket_index(value, bucket_index)
        ok == counts_index_asserts(hh, bucket_index, sub_bucket_index)
        index == counts_index(hh, bucket_index, sub_bucket_index)
    IN  IF ~ok /\ ~ndebug
        THEN [st EXCEPT !.aborted = TRUE, !.assertFailed = TRUE,
                        !.ret = "aborted"]
        ELSE IF index < 0 \/ hh.counts_len <= index
        THEN [st EXCEPT !.assertFailed = @ \/ ~ok, !.ret = "false"]
        ELSE [st EXCEPT !.counts = Bump(@, index),
                        !.stored = @ + 1,
                        !.recorded = @ \cup {value},
                        !.assertFailed = @ \/ ~ok, !.ret = "true"]

\* hdrh_record_value: counts_index_for(h, value) asserts (and ends the
\* program unless built with NDEBUG) before the range check
hdrh_record_value(st, hh, ndebug, value) ==
    LET bucket_index == get_bucket_index(hh, value)
        sub_bucket_index == get_sub_bucket_index(value, bucket_index)
        ok == counts_index_asserts(hh, bucket_index, sub_bucket_index)
        index == counts_index(hh, bucket_index, sub_bucket_index)
    IN  IF ~ok /\ ~ndebug
        THEN [st EXCEPT !.aborted = TRUE, !.assertFailed = TRUE,
                        !.ret = "aborted"]
        ELSE IF index < 0 \/ hh.counts_len <= index
        THEN [st EXCEPT !.assertFailed = @ \/ ~ok, !.ret = "false"]
        ELSE [st EXCEPT !.counts = Bump(@, index),
                        !.total_count = @ + 1,
                        !.stored = @ + 1,
                        !.recorded = @ \cup {value},
                        !.assertFailed = @ \/ ~ok, !.ret = "true"]

RECURSIVE record_missing_strict(_, _, _, _, _)
\* a back-fill loop that stops one step early: while missing_value is
\* greater than expected_interval
record_missing_strict(st, hh, ndebug, missing_value, expected_interval) ==
    IF missing_value > expected_interval
    THEN LET s == hdrh_record_value(st, hh, ndebug, missing_value)
         IN  IF s.ret # "true" THEN s
             ELSE record_missing_strict(s, hh, ndebug,
                                        missing_value - expected_interval,
                                        expected_interval)
    ELSE [st EXCEPT !.ret = "true"]

RECURSIVE record_missing(_, _, _, _, _)
\* for (; missing_value >= expected_interval; missing_value -= interval)
record_missing(st, hh, ndebug, missing_value, expected_interval) ==
    IF missing_value >= expected_interval
    THEN LET s == hdrh_record_value(st, hh, ndebug, missing_value)
         IN  IF s.ret # "true" THEN s
             ELSE record_missing(s, hh, ndebug,
                                 missing_value - expected_interval,
                                 expected_interval)
    ELSE [st EXCEPT !.ret = "true"]

hdrh_record_corrected_value(st, hh, ndebug, value, expected_interval) ==
    LET s == hdrh_record_value(st, hh, ndebug, value)
    IN  IF s.ret # "true" THEN s
        ELSE IF expected_interval <= 0 \/ value <= expected_interval THEN s
        ELSE record_missing(s, hh, ndebug, value - expected_interval,
                            expected_interval)

\* no query has been made since the last recording
NoQuery == [op |-> "none", arg |-> 0, result |-> 0]

\* the histogram and the history after a call that ended in st
HistAfter(st, op, value, interval) ==
    /\ counts' = st.counts
    /\ total_count' = st.total_count
    /\ stored' = st.stored
    /\ recorded' = st.recorded
    /\ query' = NoQuery
    /\ aborted' = st.aborted
    /\ assertFailed' = st.assertFailed
    /\ hcalls' = hcalls + 1
    /\ last' = [op |-> op, value |-> value, interval |-> interval,
                ret |-> st.ret]

\* a call of hdrh_record_value by the program, while it is running
record_value(value) ==
    /\ ~aborted
    /\ hcalls < MaxCalls
    /\ HistAfter(hdrh_record_value(HState, h, NDEBUG, value),
                 "record", value, 0)
    /\ UNCHANGED <<h, NDEBUG>>
    /\ UNCHANGED <<pvars, avars, fvars>>

\* a call of hdrh_record_corrected_value by the program
record_corrected_value(value, expected_interval) ==
    /\ ~aborted
    /\ hcalls < MaxCalls
    /\ HistAfter(hdrh_record_corrected_value(HState, h, NDEBUG, value,
                                             expected_interval),
                 "record_corrected", value, expected_interval)
    /\ UNCHANGED <<h, NDEBUG>>
    /\ UNCHANGED <<pvars, avars, fvars>>

(***************************************************************************)
(* hdr_histogram.c: the iterator and the values read through it.  The      *)
(* iterator visits the counts indices in increasing order: sub-buckets     *)
(* 0 .. sub_bucket_count - 1 of bucket 0, then the upper halves of buckets *)
(* 1, 2, ...  An index whose count is 0 changes neither count_to_index nor *)
(* any of the results below, so the walks step from one recorded index to  *)
(* the next.                                                               *)
(***************************************************************************)
\* iter->bucket_index once hdrh_iter_next has been called index + 1 times
iter_bucket_index(hh, index) ==
    IF index < hh.sub_bucket_count THEN 0
    ELSE (index \div hh.sub_bucket_half_count) - 1

\* iter->sub_bucket_index once hdrh_iter_next has been called index + 1 times
iter_sub_bucket_index(hh, index) ==
    IF index < hh.sub_bucket_count THEN index
    ELSE (index % hh.sub_bucket_half_count) + hh.sub_bucket_half_count

has_next(count_to_index, tc) == count_to_index < tc

\* struct hdrh_iter as the call of hdrh_iter_next that arrives at index
\* leaves it, count_to_index being its value before the call
hdrh_iter_next(hh, c, index, count_to_index) ==
    LET bucket_index == iter_bucket_index(hh, index)
        sub_bucket_index == iter_sub_bucket_index(hh, index)
        count_at_index ==
            CountAt(c, counts_index(hh, bucket_index, sub_bucket_index))
        value == value_from_index(bucket_index, sub_bucket_index)
    IN  [bucket_index |-> bucket_index,
         sub_bucket_index |-> sub_bucket_index,
         count_at_index |-> count_at_index,
         count_to_index |-> count_to_index + count_at_index,
         value_from_index |-> value,
         highest_equivalent_value |-> highest_equivalent_value(hh, value)]

\* the least element of a non-empty set of indices
NextIndex(idx) == CHOOSE i \in idx : \A j \in idx : i <= j

\* the values recorded by the programs that query the histogram
QueryValues == {0, 1000, 2049, 3001, 3500}

\* recording calls made before the histogram is read back
MaxLoad == 2

\* the test's load_histograms: hdr_record_value(raw_histogram, v)
load_record_value(value) ==
    /\ hcalls < MaxLoad
    /\ record_value(value)

\* the test's load_histograms: hdr_record_corrected_value(cor_histogram, v, e)
load_record_corrected_value(value, expected_interval) ==
    /\ hcalls < MaxLoad
    /\ record_corrected_value(value, expected_interval)

\* the percentiles asked for, and the rounding of hdrh_value_at_percentile:
\* (int64_t) ((requested_percentile / 100) * total_count + 0.5).  For these
\* percentiles and the totals of the model the double arithmetic gives
\* exactly floor(p * total_count / 100 + 1/2).
Percentiles == {0, 30, 50, 75, 99, 100, 150}

count_at_percentile_for(percentile, tc) ==
    LET requested_percentile == IF percentile < 100 THEN percentile ELSE 100
        rounded == (2 * requested_percentile * tc + 100) \div 200
    IN  IF rounded > 1 THEN rounded ELSE 1

RECURSIVE value_at_percentile_strict(_, _, _, _, _, _)
\* a walk that wants the running total to exceed count_at_percentile
value_at_percentile_strict(hh, c, tc, from, total, count_at_percentile) ==
    IF ~has_next(total, tc) THEN 0
    ELSE IF {i \in DOMAIN c : i >= from} = {} THEN -1
    ELSE LET index == NextIndex({i \in DOMAIN c : i >= from})
             iter == hdrh_iter_next(hh, c, index, total)
         IN  IF total + iter.count_at_index > count_at_percentile
             THEN iter.value_from_index
             ELSE value_at_percentile_strict(hh, c, tc, index + 1,
                                             iter.count_to_index,
                                             count_at_percentile)

RECURSIVE value_at_percentile_walk(_, _, _, _, _, _)
\* while (hdrh_iter_next(&iter)) { total += iter.count_at_index;
\*     if (total >= count_at_percentile) return iter.value_from_index; }
\* return 0;   total and iter.count_to_index are the same number.  The walk
\* would read past the array (-1 here) only if total_count exceeded the
\* sum of the counts.
value_at_percentile_walk(hh, c, tc, from, total, count_at_percentile) ==
    IF ~has_next(total, tc) THEN 0
    ELSE IF {i \in DOMAIN c : i >= from} = {} THEN -1
    ELSE LET index == NextIndex({i \in DOMAIN c : i >= from})
             iter == hdrh_iter_next(hh, c, index, total)
         IN  IF total + iter.count_at_index >= count_at_percentile
             THEN iter.value_from_index
             ELSE value_at_percentile_walk(hh, c, tc, index + 1,
                                           iter.count_to_index,
                                           count_at_percentile)

hdrh_value_at_percentile(hh, c, tc, percentile) ==
    value_at_percentile_walk(hh, c, tc, 0, 0,
                             count_at_percentile_for(percentile, tc))

\* a call of hdrh_value_at_percentile by the program
value_at_percentile(percentile) ==
    /\ ~aborted
    /\ query' = [op |-> "value_at_percentile", arg |-> percentile,
                 result |-> hdrh_value_at_percentile(h, counts, total_count,
                                                     percentile)]
    /\ UNCHANGED <<h, counts, total_count, NDEBUG, aborted, assertFailed,
                   hcalls, stored, last, recorded>>
    /\ UNCHANGED <<pvars, avars, fvars>>

RECURSIVE max_walk_first(_, _, _, _, _, _)
\* a walk that keeps the first recorded index it meets
max_walk_first(hh, c, tc, from, count_to_index, max) ==
    IF ~has_next(count_to_index, tc) THEN max
    ELSE IF {i \in DOMAIN c : i >= from} = {} THEN -1
    ELSE LET index == NextIndex({i \in DOMAIN c : i >= from})
             iter == hdrh_iter_next(hh, c, index, count_to_index)
         IN  max_walk_first(hh, c, tc, index + 1, iter.count_to_index,
                            IF 0 # iter.count_at_index /\ max = 0
                            THEN iter.highest_equivalent_value ELSE max)

RECURSIVE max_walk(_, _, _, _, _, _)
\* hdrh_max: while (hdrh_iter_next(&iter))
\*     if (0 != iter.count_at_index) max = iter.highest_equivalent_value;
max_walk(hh, c, tc, from, count_to_index, max) ==
    IF ~has_next(count_to_index, tc) THEN max
    ELSE IF {i \in DOMAIN c : i >= from} = {} THEN -1
    ELSE LET index == NextIndex({i \in DOMAIN c : i >= from})
             iter == hdrh_iter_next(hh, c, index, count_to_index)
         IN  max_walk(hh, c, tc, index + 1, iter.count_to_index,
                      IF 0 # iter.count_at_index
                      THEN iter.highest_equivalent_value ELSE max)

hdrh_max(hh, c, tc) ==
    lowest_equivalent_value(hh, max_walk(hh, c, tc, 0, 0, 0))

\* hdrh_min: the walk breaks at the first index where count_to_index is not
\* 0, which is the first index holding a count, and returns its
\* value_from_index; 0 if the iterator has nothing to visit
hdrh_min(hh, c, tc) ==
    IF ~has_next(0, tc) THEN 0
    ELSE IF DOMAIN c = {} THEN -1
    ELSE hdrh_iter_next(hh, c, NextIndex(DOMAIN c), 0).value_from_index

\* a call of hdrh_max by the program
max_value ==
    /\ ~aborted
    /\ query' = [op |-> "max", arg |-> 0,
                 result |-> hdrh_max(h, counts, total_count)]
    /\ UNCHANGED <<h, counts, total_count, NDEBUG, aborted, assertFailed,
                   hcalls, stored, last, recorded>>
    /\ UNCHANGED <<pvars, avars, fvars>>

\* a call of hdrh_min by the program
min_value ==
    /\ ~aborted
    /\ query' = [op |-> "min", arg |-> 0,
                 result |-> hdrh_min(h, counts, total_count)]
    /\ UNCHANGED <<h, counts, total_count, NDEBUG, aborted, assertFailed,
                   hcalls, stored, last, recorded>>
    /\ UNCHANGED <<pvars, avars, fvars>>

\* a freshly allocated histogram of the given geometry and build
HistFresh(g, ndebug) ==
    /\ hdrh_alloc_rc(g[2]) = 0
    /\ h = hdrh_alloc(g[1], g[2])
    /\ counts = <<>>
    /\ total_count = 0
    /\ NDEBUG = ndebug
    /\ aborted = FALSE
    /\ assertFailed = FALSE
    /\ hcalls = 0
    /\ stored = 0
    /\ recorded = {}
    /\ query = NoQuery
    /\ last = [op |-> "none", value |-> 0, interval |-> 0, ret |-> "none"]

(***************************************************************************)
(* hdr_atomic_histogram.c                                                  *)
(***************************************************************************)
\* _atomic_increment calls made in a behaviour
MaxInc == 3

Threads == {"t1", "t2"}
\* the counts indices and the amounts the threads increment by
Indices == {0, 1}
Amounts == {1, 2}

AtomicInit ==
    /\ acounts = [i \in Indices |-> 0]
    /\ atotal = 0
    /\ apc = [t \in Threads |-> "idle"]
    /\ aarg = [t \in Threads |-> [index |-> 0, value |-> 0]]
    /\ issued = [i \in Indices |-> 0]
    /\ nInc = 0
    /\ overlap = FALSE

\* an increment that counts one recording whatever the amount
add_one(old, value) == old + 1

\* __atomic_add_fetch(&h->total_count, value, __ATOMIC_SEQ_CST)
add_fetch_total(old, value) == old + value

\* _atomic_increment: __atomic_add_fetch(&h->counts[index], value)
atomic_increment_counts(t, index, value) ==
    /\ apc[t] = "idle"
    /\ nInc < MaxInc
    /\ acounts' = [acounts EXCEPT ![index] = @ + value]
    /\ apc' = [apc EXCEPT ![t] = "counted"]
    /\ aarg' = [aarg EXCEPT ![t] = [index |-> index, value |-> value]]
    /\ issued' = [issued EXCEPT ![index] = @ + value]
    /\ nInc' = nInc + 1
    /\ overlap' = (overlap \/ \E u \in Threads \ {t} : apc[u] = "counted")
    /\ UNCHANGED atotal
    /\ UNCHANGED <<pvars, hvars, fvars>>

\* _atomic_increment: __atomic_add_fetch(&h->total_count, value)
atomic_increment_total(t) ==
    /\ apc[t] = "counted"
    /\ atotal' = add_fetch_total(atotal, aarg[t].value)
    /\ apc' = [apc EXCEPT ![t] = "idle"]
    /\ UNCHANGED <<acounts, aarg, issued, nInc, overlap>>
    /\ UNCHANGED <<pvars, hvars, fvars>>

(***************************************************************************)
(* Specifications                                                          *)
(***************************************************************************)
\* no function call is being followed
NoCall == [op |-> "none"]

Init ==
    /\ hdr_writer_reader_phaser_init
    /\ HistFresh(<<3000, 3>>, FALSE)
    /\ AtomicInit
    /\ call = NoCall

Next ==
    \/ \E w \in Writers : hdr_interval_recorder_update(w)
    \/ \E r \in Readers :
          \/ hdr_phaser_reader_lock(r)
          \/ hdr_phaser_flip_phase(r)
          \/ hdr_phaser_reader_unlock(r)

Spec == Init /\ [][Next]_vars

\* hdr_interval_recorder_sample, step by step
hdr_interval_recorder_sample(r) ==
    \/ sample_reader_lock(r)
    \/ sample_load_active(r)
    \/ sample_store_active(r)
    \/ hdr_phaser_flip_phase(r)
    \/ sample_return(r)

NextRec ==
    \/ \E w \in Writers : hdr_interval_recorder_update(w)
    \/ \E r \in Readers : hdr_interval_recorder_sample(r)

SpecRec == Init /\ [][NextRec]_vars

InitHist ==
    /\ hdr_writer_reader_phaser_init
    /\ \E g \in Geometries, ndebug \in BOOLEAN : HistFresh(g, ndebug)
    /\ AtomicInit
    /\ call = NoCall

NextHist ==
    \/ \E v \in Values : record_value(v)
    \/ \E v \in Values, e \in Intervals : record_corrected_value(v, e)

SpecHist == InitHist /\ [][NextHist]_vars

\* a program that records a few values and reads the histogram back
NextQuery ==
    \/ \E v \in QueryValues : load_record_value(v)
    \/ \E v \in QueryValues, e \in Intervals :
          load_record_corrected_value(v, e)
    \/ \E p \in Percentiles : value_at_percentile(p)
    \/ max_value
    \/ min_value

SpecQuery == InitHist /\ [][NextQuery]_vars

(***************************************************************************)
(* The value ranges of a histogram: lowest_equivalent_value,               *)
(* highest_equivalent_value, size_of_equivalent_value_range,               *)
(* hdrh_values_are_equivalent and counts_index_for, applied to values of   *)
(* [0, highest_trackable_value].                                           *)
(***************************************************************************)
\* histograms of every significant_figures hdrh_alloc accepts
RangeGeometries ==
    {<<2047, 3>>, <<10000, 3>>, <<40000, 4>>, <<300000, 5>>, <<3000000, 6>>}

\* every value up to DenseTop is tried, and beyond it the values around the
\* start of each bucket and around highest_trackable_value
DenseTop == 2500

RangeValues(hh) ==
    {v \in 0..hh.highest_trackable_value : v <= DenseTop}
    \cup {v \in {hh.sub_bucket_count * (2 ^ k) + d :
                    k \in 0..(hh.bucket_count - 1), d \in (-3)..8} :
             v <= hh.highest_trackable_value}
    \cup {v \in {hh.highest_trackable_value - d : d \in 0..3} : v >= 0}

\* the second value of a pair is this far above the first
RangeOffsets == {1, 3, 7}

InitRange ==
    /\ hdr_writer_reader_phaser_init
    /\ \E g \in RangeGeometries : HistFresh(g, FALSE)
    /\ AtomicInit
    /\ \E a \in RangeValues(h), d \in RangeOffsets :
          /\ a + d <= h.highest_trackable_value
          /\ call = [op |-> "pending", a |-> a, b |-> a + d]

\* the program asks for the range of call.a and compares it with call.b
equivalent_range ==
    /\ call.op = "pending"
    /\ call' =
          [op |-> "equivalent_range", a |-> call.a, b |-> call.b,
           lowest |-> lowest_equivalent_value(h, call.a),
           highest |-> highest_equivalent_value(h, call.a),
           lowest_of_highest |->
               lowest_equivalent_value(h,
                   highest_equivalent_value(h, call.a)),
           size |-> size_of_equivalent_value_range(h, call.a),
           equivalent |-> hdrh_values_are_equivalent(h, call.a, call.b),
           index_a |-> counts_index_for(h, call.a),
           index_b |-> counts_index_for(h, call.b)]
    /\ UNCHANGED <<pvars, hvars, avars>>

NextRange == equivalent_range

SpecRange == InitRange /\ [][NextRange]_vars

(***************************************************************************)
(* hdrh_alloc called with any significant_figures                          *)
(***************************************************************************)
\* errno.h's EINVAL, the InvalidArgument code the tests compare with
EINVAL == 22

\* the arguments of hdrh_alloc
AllocHighest == {1, 2047, 3000, 40000, 36000000}
AllocFigures == (-2)..8

\* the caller has set *result to NULL; malloc will succeed or not
InitAlloc ==
    /\ hdr_writer_reader_phaser_init
    /\ HistFresh(<<3000, 3>>, FALSE)
    /\ AtomicInit
    /\ \E highest \in AllocHighest, sf \in AllocFigures,
           malloc_ok \in BOOLEAN :
          call = [op |-> "pending", highest_trackable_value |-> highest,
                  significant_figures |-> sf, malloc_ok |-> malloc_ok]

\* hdrh_alloc(highest_trackable_value, significant_figures, &result):
\* -1 before anything is allocated when significant_figures is refused,
\* -2 when malloc fails, else *result is the new histogram and 0 is returned
alloc ==
    /\ call.op = "pending"
    /\ LET rc == IF hdrh_alloc_rc(call.significant_figures) # 0
                 THEN hdrh_alloc_rc(call.significant_figures)
                 ELSE IF ~call.malloc_ok THEN -2 ELSE 0
       IN  call' =
             [op |-> "hdrh_alloc",
              highest_trackable_value |-> call.highest_trackable_value,
              significant_figures |-> call.significant_figures,
              malloc_ok |-> call.malloc_ok,
              rc |-> rc,
              allocated |-> (rc = 0),
              result |-> IF rc = 0
                         THEN hdrh_alloc(call.highest_trackable_value,
                                         call.significant_figures)
                         ELSE [counts_len |-> 0]]
    /\ UNCHANGED <<pvars, hvars, avars>>

NextAlloc == alloc

SpecAlloc == InitAlloc /\ [][NextAlloc]_vars

(***************************************************************************)
(* hdr_histogram_log.c: hdr_encode_compressed and hdr_decode_compressed.   *)
(* The histogram they work on has the lowest_trackable_value field and is  *)
(* built by hdr_init, neither of which hdr_histogram.c has; hdr_init is    *)
(* taken from the derived geometry the specification gives.  Integers in   *)
(* memory are tuples of bytes in address order.  zlib is a library outside *)
(* the repository: deflate and inflate follow zlib.h, the compressed bytes *)
(* stand for the sequence of inputs deflate consumed (strm.zin), which     *)
(* inflate gives back, and how many bytes deflate emits in a call is any   *)
(* amount up to the input it has consumed and not yet emitted.  Memory     *)
(* allocation succeeds.                                                    *)
(***************************************************************************)
\* const int counts_per_chunk = 512
counts_per_chunk == 512
\* sizeof(int64_t)
word_size == 8
\* sizeof(struct _encoding_flyweight)
encoding_flyweight_size == 32
\* sizeof(struct _compression_flyweight)
compression_flyweight_size == 8
\* int buffer_len = 4096
initial_buffer_len == 4096

ENCODING_COOKIE == 478450440 + (8 * 16)
COMPRESSION_COOKIE == 478450441 + (8 * 16)

HDR_COMPRESSION_COOKIE_MISMATCH == -29999
HDR_ENCODING_COOKIE_MISMATCH == -29998
HDR_INFLATE_INIT_FAIL == -29995
HDR_INFLATE_FAIL == -29994
ENOMEM == 12

\* the four bytes of a 32-bit big-endian integer
htobe32(x) ==
    <<(x \div (2 ^ 24)) % 256, (x \div (2 ^ 16)) % 256,
      (x \div (2 ^ 8)) % 256, x % 256>>

be32toh(b) == ((b[1] * 256 + b[2]) * 256 + b[3]) * 256 + b[4]

\* the eight bytes of a 64-bit big-endian integer; the counts and the
\* bounds of the model are in [0, 2^31)
htobe64(x) == <<0, 0, 0, 0>> \o htobe32(x)

\* the value of eight big-endian bytes, for values in [0, 2^31)
be64toh(b) == be32toh(SubSeq(b, 5, 8))

\* four bytes read as the int32_t of the little-endian host
host_int32(b) ==
    IF b[4] < 128
    THEN ((b[4] * 256 + b[3]) * 256 + b[2]) * 256 + b[1]
    ELSE (((b[4] - 256) * 256 + b[3]) * 256 + b[2]) * 256 + b[1]

\* floor(log2(x)) for x >= 1
RECURSIVE FloorLog2(_)
FloorLog2(x) == IF x < 2 THEN 0 ELSE 1 + FloorLog2(x \div 2)

\* hdr_init(lowest_trackable_value, highest_trackable_value,
\* significant_figures, &result): the histogram of the derived geometry
hdr_init(lowest_value, highest_value, significant_figures) ==
    LET unit_magnitude == FloorLog2(lowest_value)
        sub_bucket_count_magnitude ==
            CeilLog2(2 * power(10, significant_figures))
        sub_bucket_half_count_magnitude ==
            (IF sub_bucket_count_magnitude > 1
             THEN sub_bucket_count_magnitude ELSE 1) - 1
        sub_bucket_count == 2 ^ (sub_bucket_half_count_magnitude + 1)
        bucket_count ==
            buckets_needed((sub_bucket_count - 1) * (2 ^ unit_magnitude),
                           highest_value, 1)
    IN  [lowest_trackable_value |-> lowest_value,
         highest_trackable_value |-> highest_value,
         significant_figures |-> significant_figures,
         unit_magnitude |-> unit_magnitude,
         sub_bucket_half_count_magnitude |-> sub_bucket_half_count_magnitude,
         sub_bucket_half_count |-> sub_bucket_count \div 2,
         sub_bucket_mask |-> (sub_bucket_count - 1) * (2 ^ unit_magnitude),
         sub_bucket_count |-> sub_bucket_count,
         bucket_count |-> bucket_count,
         counts_len |-> (bucket_count + 1) * (sub_bucket_count \div 2)]

\* <<lowest, highest, significant_figures>> of the histograms encoded:
\* counts_len is 64, 640, 2304 and 3072, that is less than one chunk, whole
\* chunks and a part, and a multiple of the chunk
CodecGeometries ==
    {<<1, 100, 1>>, <<1, 2000, 2>>, <<1, 10000000, 2>>, <<1, 3000, 3>>}

\* the values recorded before the histogram is encoded
CodecValues == {0, 90, 1000, 2500, 5000000}

\* what the bytes of the uninitialised chunk array can be before the first
\* chunk is written: every count 0, or every count this word
GarbageWords == {<<0, 0, 0, 0, 0, 0, 0, 0>>, <<0, 0, 0, 0, 0, 0, 0, 170>>}

ZeroWord == htobe64(0)

\* an array of 64-bit words is kept as the function from the indices that
\* do not hold ZeroWord to their words
\* for (i = 0; i < counts_per_chunk && counts_index < h->counts_len; i++)
\*     encode_fw->counts[i] = htobe64(h->counts[counts_index++]);
\* the entries from the loop's end on keep what they held
fill_chunk(words, c, from_index, counts_len) ==
    LET n == IF counts_len - from_index < counts_per_chunk
             THEN counts_len - from_index ELSE counts_per_chunk
    IN  [i \in {j \in 0..(n - 1) : CountAt(c, from_index + j) # 0}
               \cup {j \in DOMAIN words : j >= n} |->
            IF i < n THEN htobe64(CountAt(c, from_index + i))
            ELSE words[i]]

\* what deflate reads at strm.next_in: the whole chunk (the encoding
\* flyweight, then its counts) or the counts alone
deflate_input(strm, chunk) ==
    IF strm.avail_in = 0 THEN <<>>
    ELSE IF strm.next_in = "chunk"
    THEN <<[header |-> chunk.header], [counts |-> chunk.counts]>>
    ELSE <<[counts |-> chunk.counts]>>

\* deflate(&strm, flush): output waiting from an earlier call is written
\* first, and when that fills the output buffer the call returns Z_OK
\* without reading any input; otherwise all the input is consumed and
\* emitted bytes of output are produced, of which those that do not fit
\* wait.  With Z_FINISH the call returns Z_STREAM_END once everything has
\* been written and room is left.
deflate(strm, chunk, flush, emitted) ==
    LET flushed == IF strm.pending < strm.avail_out
                   THEN strm.pending ELSE strm.avail_out
        s1 == [strm EXCEPT !.pending = @ - flushed,
                           !.avail_out = @ - flushed,
                           !.total_out = @ + flushed]
        written == IF emitted < s1.avail_out THEN emitted ELSE s1.avail_out
        s2 == [s1 EXCEPT !.zin = @ \o deflate_input(strm, chunk),
                         !.total_in = @ + strm.avail_in,
                         !.avail_in = 0,
                         !.pending = emitted - written,
                         !.avail_out = @ - written,
                         !.total_out = @ + written]
    IN  IF strm.pending # 0 /\ s1.avail_out = 0
        THEN [s1 EXCEPT !.r = "Z_OK"]
        ELSE [s2 EXCEPT !.r = IF flush = "Z_FINISH" /\ s2.avail_out > 0
                              THEN "Z_STREAM_END" ELSE "Z_OK"]

\* the bytes deflate can emit in a call that consumes its input: none, or
\* as many as the input consumed and not emitted yet
Emitted(strm) ==
    {0, strm.total_in + strm.avail_in - (strm.total_out + strm.pending)}

\* with Z_FINISH everything consumed is emitted: in a few bytes, or in as
\* many as the input
EmittedAtFinish(strm) ==
    {word_size,
     strm.total_in + strm.avail_in - (strm.total_out + strm.pending)
         + word_size}

\* if (strm.avail_out == 0): the buffer is doubled and the output goes on
\* in its new half
realloc_buffer_doubled(e) ==
    IF e.strm.avail_out = 0
    THEN [e EXCEPT !.strm.avail_out = e.buffer_len,
                   !.buffer_len = e.buffer_len * 2]
    ELSE e

\* hdr_encode_compressed up to its first loop, called with *buffer == NULL:
\* the buffer is allocated, the flyweights are written and deflate is
\* pointed at the whole chunk, whose counts are uninitialised
encode_begin(garbage) ==
    /\ call.op = "none"
    /\ ~aborted
    /\ call' =
          [op |-> "encode_loop",
           ret |-> 0,
           buffer_len |-> initial_buffer_len,
           comp_fw |-> [cookie |-> htobe32(COMPRESSION_COOKIE),
                        length |-> htobe32(0)],
           chunk |->
               [header |->
                    [cookie |-> htobe32(ENCODING_COOKIE),
                     significant_figures |->
                         htobe32(h.significant_figures),
                     lowest_trackable_value |->
                         htobe64(h.lowest_trackable_value),
                     highest_trackable_value |->
                         htobe64(h.highest_trackable_value),
                     total_count |-> htobe64(total_count)],
                counts |-> IF garbage = ZeroWord THEN <<>>
                           ELSE [i \in 0..(counts_per_chunk - 1) |->
                                    garbage]],
           counts_index |-> 0,
           strm |-> [next_in |-> "chunk",
                     avail_in |-> encoding_flyweight_size
                                  + counts_per_chunk * word_size,
                     avail_out |-> initial_buffer_len
                                   - compression_flyweight_size,
                     total_in |-> 0, total_out |-> 0, pending |-> 0,
                     zin |-> <<>>, r |-> "Z_OK"]]
    /\ UNCHANGED <<pvars, hvars, avars>>

\* one pass of the first do-while loop: the next chunk of counts is
\* written, deflate is called, strm.next_in and strm.avail_in are set to
\* the counts of the chunk whatever deflate consumed, and the buffer is
\* doubled when it is full
encode_chunk ==
    /\ call.op = "encode_loop"
    /\ \E emitted \in Emitted(call.strm) :
          LET filled ==
                  IF h.counts_len - call.counts_index < counts_per_chunk
                  THEN h.counts_len
                  ELSE call.counts_index + counts_per_chunk
              chunk == [call.chunk EXCEPT !.counts =
                           fill_chunk(@, counts, call.counts_index,
                                      h.counts_len)]
              strm == deflate(call.strm, chunk, "Z_NO_FLUSH", emitted)
          IN  call' = realloc_buffer_doubled(
                  [call EXCEPT
                      !.op = IF filled < h.counts_len
                             THEN "encode_loop" ELSE "encode_finish",
                      !.chunk = chunk,
                      !.counts_index = filled,
                      !.strm = [strm EXCEPT
                                   !.next_in = "counts",
                                   !.avail_in =
                                       counts_per_chunk * word_size]])
    /\ UNCHANGED <<pvars, hvars, avars>>

\* one pass of the second do-while loop, and what follows it when deflate
\* has returned Z_STREAM_END: the compression flyweight gets the length of
\* the compressed data and *length the size of the flyweight plus
\* comp_fw->length as the host reads it
encode_finish ==
    /\ call.op = "encode_finish"
    /\ \E emitted \in EmittedAtFinish(call.strm) :
          LET strm == deflate(call.strm, call.chunk, "Z_FINISH", emitted)
              e == realloc_buffer_doubled([call EXCEPT !.strm = strm])
              length == htobe32(strm.total_out)
          IN  call' =
                 IF strm.r # "Z_STREAM_END" THEN e
                 ELSE [op |-> "encoded", ret |-> e.ret,
                       buffer_len |-> e.buffer_len,
                       comp_fw |-> [e.comp_fw EXCEPT !.length = length],
                       data |-> strm.zin,
                       total_in |-> strm.total_in,
                       total_out |-> strm.total_out,
                       length |-> compression_flyweight_size
                                  + host_int32(length)]
    /\ UNCHANGED <<pvars, hvars, avars>>

\* the counts one inflate call gives, stored from counts_index on while
\* counts_index < h->counts_len
decode_chunk(decoded, words, from_index, counts_len) ==
    LET n == IF counts_len - from_index < counts_per_chunk
             THEN counts_len - from_index ELSE counts_per_chunk
    IN  [i \in DOMAIN decoded
               \cup {from_index + j : j \in {k \in DOMAIN words : k < n}}
            |-> IF i \in DOMAIN decoded THEN decoded[i]
                ELSE be64toh(words[i - from_index])]

\* the do-while loop of hdr_decode_compressed: each inflate call fills
\* counts_array with the next counts_per_chunk counts of the stream, and
\* the loop ends when inflate returns Z_STREAM_END
RECURSIVE decode_counts(_, _, _, _, _)
decode_counts(data, k, decoded, from_index, counts_len) ==
    IF k > Len(data) THEN decoded
    ELSE decode_counts(data, k + 1,
             decode_chunk(decoded, data[k].counts, from_index,
                          counts_len),
             IF counts_len - from_index < counts_per_chunk
             THEN (IF from_index < counts_len
                   THEN counts_len ELSE from_index)
             ELSE from_index + counts_per_chunk,
             counts_len)

\* what the surroundings of a hdr_decode_compressed call decide: what
\* inflateInit returns, whether and where the compressed data makes inflate
\* fail, what hdr_init returns, and what the uninitialised local h holds
NoFaults ==
    [inflateInit |-> "Z_OK", inflate |-> "none", hdr_init |-> 0, h |-> "NULL"]

\* the values an uninitialised pointer can hold: NULL, an address that is
\* no allocation, or the address of a block the caller still owns
UninitialisedPointers == {"NULL", "wild", "caller_owned"}

\* the ways a call can fail, one at a time
DecodeFaults ==
    {"none", "short_length", "result_not_null", "compression_cookie",
     "encoding_cookie", "inflateInit", "inflate_first", "inflate_loop",
     "hdr_init"}

\* the surroundings of a call with the given fault
faulty(fault, h_local) ==
    [inflateInit |-> IF fault = "inflateInit" THEN "Z_MEM_ERROR" ELSE "Z_OK",
     inflate |-> IF fault = "inflate_first" THEN "first"
                 ELSE IF fault = "inflate_loop" THEN "loop" ELSE "none",
     hdr_init |-> IF fault = "hdr_init" THEN ENOMEM ELSE 0,
     h |-> h_local]

\* cleanup: if (ret != 0) free(h); else *result = h;   h is what hdr_init
\* stored in it when allocated, and what the local held before otherwise
cleanup(r, allocated, h_local) ==
    IF r.ret # 0
    THEN [r EXCEPT !.stored = FALSE,
                   !.freed = IF allocated THEN "h" ELSE h_local]
    ELSE [r EXCEPT !.stored = TRUE, !.freed = "none"]

\* hdr_decode_compressed(buffer, length, &result) with *result == NULL or
\* not: the return code, whether *result was stored to, the histogram
\* stored, and the pointer passed to free
hdr_decode_compressed(comp_fw, data, total_out, length, result_is_null, env) ==
    LET failed(ret) == cleanup([ret |-> ret, stored |-> FALSE,
                                freed |-> "none"], FALSE, env.h)
        compressed_length == be32toh(comp_fw.length)
    IN  IF (0 <= length /\ length < compression_flyweight_size)
           \/ ~result_is_null
        THEN failed(EINVAL)
        ELSE IF COMPRESSION_COOKIE # be32toh(comp_fw.cookie)
        THEN failed(HDR_COMPRESSION_COOKIE_MISMATCH)
        ELSE IF env.inflateInit # "Z_OK"
        THEN failed(HDR_INFLATE_INIT_FAIL)
        ELSE IF \/ env.inflate = "first"
                \/ compressed_length < total_out
                \/ Len(data) < 2
                \/ "header" \notin DOMAIN data[1]
        THEN failed(HDR_INFLATE_FAIL)
        ELSE LET encoding_flyweight == data[1].header
             IN  IF ENCODING_COOKIE # be32toh(encoding_flyweight.cookie)
                 THEN failed(HDR_ENCODING_COOKIE_MISMATCH)
                 ELSE IF env.hdr_init # 0
                 THEN failed(ENOMEM)
                 ELSE LET hh == hdr_init(
                                 be64toh(encoding_flyweight
                                             .lowest_trackable_value),
                                 be64toh(encoding_flyweight
                                             .highest_trackable_value),
                                 be32toh(encoding_flyweight
                                             .significant_figures))
                      IN  cleanup(
                              [ret |-> IF env.inflate = "loop"
                                       THEN HDR_INFLATE_FAIL ELSE 0,
                               stored |-> FALSE, freed |-> "none",
                               h |-> hh,
                               total_count |->
                                   be64toh(encoding_flyweight.total_count),
                               counts |->
                                   decode_counts(data, 2, <<>>, 0,
                                                 hh.counts_len)],
                              TRUE, env.h)

\* the caller decodes the buffer hdr_encode_compressed filled, passing the
\* length it was given and a NULL *result
decode_compressed ==
    /\ call.op = "encoded"
    /\ call.ret = 0
    /\ call' = [op |-> "decoded", encoded |-> call,
                result |-> hdr_decode_compressed(call.comp_fw, call.data,
                               call.total_out, call.length, TRUE,
                               NoFaults)]
    /\ UNCHANGED <<pvars, hvars, avars>>

\* a buffer whose cookie, at the start of the compression flyweight or of
\* the compressed encoding flyweight, has been overwritten
WrongCookie == htobe32(0)

damaged_comp_fw(comp_fw, fault) ==
    IF fault = "compression_cookie"
    THEN [comp_fw EXCEPT !.cookie = WrongCookie] ELSE comp_fw

damaged_data(data, fault) ==
    IF fault = "encoding_cookie"
    THEN [data EXCEPT ![1].header.cookie = WrongCookie] ELSE data

\* a length shorter than the compression flyweight
ShortLength == 4

\* a caller decodes the buffer hdr_encode_compressed filled: as it is, or
\* damaged, or with a short length, or with a *result that already points
\* to a histogram, or while inflateInit, inflate or hdr_init fails
decode_with_faults(fault, h_local) ==
    /\ call.op = "encoded"
    /\ call.ret = 0
    /\ call' = [op |-> "decode_tried", encoded |-> call, fault |-> fault,
                result |-> hdr_decode_compressed(
                               damaged_comp_fw(call.comp_fw, fault),
                               damaged_data(call.data, fault),
                               call.total_out,
                               IF fault = "short_length"
                               THEN ShortLength ELSE call.length,
                               fault # "result_not_null",
                               faulty(fault, h_local))]
    /\ UNCHANGED <<pvars, hvars, avars>>

\* the histogram is loaded before it is encoded
codec_record_value(value) ==
    /\ call.op = "none"
    /\ load_record_value(value)

InitCodec ==
    /\ hdr_writer_reader_phaser_init
    /\ \E g \in CodecGeometries : h = hdr_init(g[1], g[2], g[3])
    /\ counts = <<>>
    /\ total_count = 0
    /\ NDEBUG = FALSE
    /\ aborted = FALSE
    /\ assertFailed = FALSE
    /\ hcalls = 0
    /\ stored = 0
    /\ recorded = {}
    /\ query = NoQuery
    /\ last = [op |-> "none", value |-> 0, interval |-> 0, ret |-> "none"]
    /\ AtomicInit
    /\ call = NoCall

NextCodec ==
    \/ \E value \in CodecValues : codec_record_value(value)
    \/ \E garbage \in GarbageWords : encode_begin(garbage)
    \/ encode_chunk
    \/ encode_finish
    \/ decode_compressed

SpecCodec == InitCodec /\ [][NextCodec]_vars

\* a program that encodes a histogram and has the buffer decoded under
\* every fault
NextDecode ==
    \/ \E value \in CodecValues : codec_record_value(value)
    \/ \E garbage \in GarbageWords : encode_begin(garbage)
    \/ encode_chunk
    \/ encode_finish
    \/ \E fault \in DecodeFaults, h_local \in UninitialisedPointers :
          decode_with_faults(fault, h_local)

SpecDecode == InitCodec /\ [][NextDecode]_vars

(***************************************************************************)
(* base64_encode and base64_decode of hdr_histogram_log.c.  A byte is a    *)
(* number of 0..255 and a char is its ASCII code.                          *)
(***************************************************************************)
\* the longest byte string that is encoded
MaxBytes == 4

\* the bytes of the strings: all bits clear, 'M', 'a', all bits set
ByteValues == {0, 77, 97, 255}

ByteStrings == UNION {[1..n -> ByteValues] : n \in 0..MaxBytes}

\* 'A'..'Z', 'a'..'z', '0'..'9', '+', '/'
base64_table ==
    <<65, 66, 67, 68, 69, 70, 71, 72, 73, 74, 75, 76, 77,
      78, 79, 80, 81, 82, 83, 84, 85, 86, 87, 88, 89, 90,
      97, 98, 99, 100, 101, 102, 103, 104, 105, 106, 107, 108, 109,
      110, 111, 112, 113, 114, 115, 116, 117, 118, 119, 120, 121, 122,
      48, 49, 50, 51, 52, 53, 54, 55, 56, 57, 43, 47>>

\* base64_table[0x3F & (_24_bit_value >> shift)]
get_base_64(_24_bit_value, shift) ==
    base64_table[((_24_bit_value \div (2 ^ shift)) % 64) + 1]

\* the six bits of a char; '=' gives 0 and any other char gives EINVAL
from_base_64(c) ==
    IF 65 <= c /\ c <= 90 THEN c - 65
    ELSE IF 97 <= c /\ c <= 122 THEN (c - 97) + 26
    ELSE IF 48 <= c /\ c <= 57 THEN (c - 48) + 52
    ELSE IF c = 43 THEN 62
    ELSE IF c = 47 THEN 63
    ELSE IF c = 61 THEN 0
    ELSE EINVAL

\* (size_t) (ceil(decoded_size / 3.0) * 4.0)
base64_encoded_len(decoded_size) == ((decoded_size + 2) \div 3) * 4

base64_decoded_len(encoded_size) == (encoded_size \div 4) * 3

\* the chars written for the last pad bytes of the input, none unless pad
\* is 1 or 2
base64_encode_block_pad(input, pad) ==
    IF pad = 2
    THEN LET _24_bit_value == input[1] * (2 ^ 16) + input[2] * (2 ^ 8)
         IN  <<get_base_64(_24_bit_value, 18),
               get_base_64(_24_bit_value, 12),
               get_base_64(_24_bit_value, 6), 61>>
    ELSE IF pad = 1
    THEN LET _24_bit_value == input[1] * (2 ^ 16)
         IN  <<get_base_64(_24_bit_value, 18),
               get_base_64(_24_bit_value, 12), 61, 61>>
    ELSE <<>>

\* three input bytes to four output chars
base64_encode_block(input) ==
    LET _24_bit_value ==
            input[1] * (2 ^ 16) + input[2] * (2 ^ 8) + input[3]
    IN  <<get_base_64(_24_bit_value, 18), get_base_64(_24_bit_value, 12),
          get_base_64(_24_bit_value, 6), get_base_64(_24_bit_value, 0)>>

\* the loop of base64_encode from input[i] and output[j], then the padded
\* block of the remaining bytes; output holds the chars written so far
RECURSIVE base64_encode_from(_, _, _, _, _)
base64_encode_from(input, i, j, output, output_len) ==
    IF Len(input) - i >= 3 /\ j < output_len
    THEN base64_encode_from(input, i + 3, j + 4,
             output \o base64_encode_block(SubSeq(input, i + 1, i + 3)),
             output_len)
    ELSE output \o base64_encode_block_pad(
                       SubSeq(input, i + 1, Len(input)), Len(input) - i)

\* base64_encode(input, input_len, output, output_len): the return code and
\* the chars of output, which the caller allocated zeroed
base64_encode(input, output_len) ==
    IF base64_encoded_len(Len(input)) # output_len
    THEN [rc |-> EINVAL, output |-> [k \in 1..output_len |-> 0]]
    ELSE [rc |-> 0,
          output |-> base64_encode_from(input, 0, 0, <<>>, output_len)]

\* four input chars to three output bytes; the four six-bit fields do not
\* overlap, so or-ing them into _24_bit_value adds them
base64_decode_block(input) ==
    LET _24_bit_value ==
            from_base_64(input[1]) * (2 ^ 18)
            + from_base_64(input[2]) * (2 ^ 12)
            + from_base_64(input[3]) * (2 ^ 6)
            + from_base_64(input[4])
    IN  <<(_24_bit_value \div (2 ^ 16)) % 256,
          (_24_bit_value \div (2 ^ 8)) % 256,
          _24_bit_value % 256>>

RECURSIVE base64_decode_from(_, _)
base64_decode_from(input, i) ==
    IF i < Len(input)
    THEN base64_decode_block(SubSeq(input, i + 1, i + 4))
             \o base64_decode_from(input, i + 4)
    ELSE <<>>

\* base64_decode(input, input_len, output, output_len): the return code and
\* the output_len bytes of output, which the caller allocated zeroed
base64_decode(input, output_len) ==
    IF \/ Len(input) < 4
       \/ Len(input) % 4 # 0
       \/ (Len(input) \div 4) * 3 # output_len
    THEN [rc |-> EINVAL, output |-> [k \in 1..output_len |-> 0]]
    ELSE [rc |-> 0, output |-> base64_decode_from(input, 0)]

InitBase64 ==
    /\ hdr_writer_reader_phaser_init
    /\ HistFresh(<<3000, 3>>, FALSE)
    /\ AtomicInit
    /\ \E x \in ByteStrings : call = [op |-> "pending", input |-> x]

\* the caller sizes the output with base64_encoded_len, as the log writer
\* and the tests do
encode_base64 ==
    /\ call.op = "pending"
    /\ LET r == base64_encode(call.input,
                              base64_encoded_len(Len(call.input)))
       IN  call' = [op |-> "base64_encode", input |-> call.input,
                    rc |-> r.rc, encoded |-> r.output]
    /\ UNCHANGED <<pvars, hvars, avars>>

\* the caller decodes what was encoded into a buffer of output_len bytes:
\* base64_decoded_len of the encoded length, as the log reader and the tests
\* do, or the length of the original string
decode_base64(exact) ==
    /\ call.op = "base64_encode"
    /\ call.rc = 0
    /\ LET output_len == IF exact THEN Len(call.input)
                         ELSE base64_decoded_len(Len(call.encoded))
           r == base64_decode(call.encoded, output_len)
       IN  call' = [op |-> "base64_decode", input |-> call.input,
                    encoded |-> call.encoded, output_len |-> output_len,
                    rc |-> r.rc, output |-> r.output]
    /\ UNCHANGED <<pvars, hvars, avars>>

NextBase64 ==
    \/ encode_base64
    \/ \E exact \in BOOLEAN : decode_base64(exact)

SpecBase64 == InitBase64 /\ [][NextBase64]_vars

NextAtomic ==
    \/ \E t \in Threads, i \in Indices, n \in Amounts :
          atomic_increment_counts(t, i, n)
    \/ \E t \in Threads : atomic_increment_total(t)

SpecAtomic == Init /\ [][NextAtomic]_vars

(***************************************************************************)
(* _atomic_update_min_max: several threads run the two compare-and-swap    *)
(* loops on one histogram.  call holds min_value and max_value of the      *)
(* histogram, each thread's position (mpc) and locals (mloc), the values   *)
(* the histogram started with and the values passed so far.                *)
(***************************************************************************)
\* total number of _atomic_update_min_max calls in a behaviour
MaxMinMaxCalls == 3

\* a small non-negative int64_t
I64Of(n) == <<0, 0, 0, n>>

\* a < b for signed 64-bit a and b
I64Less(a, b) ==
    LET Key(x) == <<(x[1] + Limb \div 2) % Limb, x[2], x[3], x[4]>>
    IN  \E i \in 1..4 :
           /\ \A j \in 1..(i - 1) : Key(a)[j] = Key(b)[j]
           /\ Key(a)[i] < Key(b)[i]

\* the values passed to _atomic_update_min_max
MinMaxValues == {I64Of(0), I64Of(1), I64Of(3), I64Of(7)}

\* <<min_value, max_value>> of the histogram before the calls: as hdr_init
\* leaves them, and after some recordings
MinMaxStarts == {<<INT64_MAX, I64Zero>>, <<I64Of(4), I64Of(4)>>,
                 <<I64Of(2), I64Of(6)>>}

InitMinMax ==
    /\ hdr_writer_reader_phaser_init
    /\ HistFresh(<<3000, 3>>, FALSE)
    /\ AtomicInit
    /\ \E s \in MinMaxStarts :
          call = [op |-> "min_max",
                  min_value |-> s[1], max_value |-> s[2],
                  initial |-> [min_value |-> s[1], max_value |-> s[2]],
                  mpc |-> [t \in Threads |-> "idle"],
                  mloc |-> [t \in Threads |->
                               [value |-> I64Zero, min |-> INT64_MAX,
                                max |-> I64Zero]],
                  given |-> {}, nCalls |-> 0, cas_failed |-> FALSE]

\* a store that does not compare
atomic_exchange(current, expected, desired) == desired

\* __atomic_compare_exchange_n(ptr, &expected, desired, ...): the new *ptr
atomic_compare_exchange(current, expected, desired) ==
    IF current = expected THEN desired ELSE current

\* a thread calls _atomic_update_min_max(h, value)
update_min_max_begin(t, value) ==
    /\ call.op = "min_max"
    /\ call.mpc[t] = "idle"
    /\ call.nCalls < MaxMinMaxCalls
    /\ call' = [call EXCEPT !.mpc[t] = "min_load",
                            !.mloc[t] = [value |-> value, min |-> INT64_MAX,
                                         max |-> I64Zero],
                            !.given = @ \cup {value},
                            !.nCalls = @ + 1]
    /\ UNCHANGED <<pvars, hvars, avars>>

\* the condition of the first while: value != 0 && (min = load) > value
update_min_load(t) ==
    /\ call.op = "min_max"
    /\ call.mpc[t] = "min_load"
    /\ IF call.mloc[t].value # I64Zero
       THEN call' = [call EXCEPT
                        !.mloc[t].min = call.min_value,
                        !.mpc[t] = IF I64Less(call.mloc[t].value,
                                              call.min_value)
                                   THEN "min_cas" ELSE "max_load"]
       ELSE call' = [call EXCEPT !.mpc[t] = "max_load"]
    /\ UNCHANGED <<pvars, hvars, avars>>

\* the body of the first while: compare-and-swap of min_value
update_min_cas(t) ==
    /\ call.op = "min_max"
    /\ call.mpc[t] = "min_cas"
    /\ call' = [call EXCEPT
                   !.min_value = atomic_compare_exchange(
                                     @, call.mloc[t].min, call.mloc[t].value),
                   !.mloc[t].min = call.min_value,
                   !.cas_failed = @ \/ call.min_value # call.mloc[t].min,
                   !.mpc[t] = "min_load"]
    /\ UNCHANGED <<pvars, hvars, avars>>

\* the condition of the second while: (max = load) < value
update_max_load(t) ==
    /\ call.op = "min_max"
    /\ call.mpc[t] = "max_load"
    /\ call' = [call EXCEPT
                   !.mloc[t].max = call.max_value,
                   !.mpc[t] = IF I64Less(call.max_value, call.mloc[t].value)
                              THEN "max_cas" ELSE "idle"]
    /\ UNCHANGED <<pvars, hvars, avars>>

\* the body of the second while: compare-and-swap of max_value
update_max_cas(t) ==
    /\ call.op = "min_max"
    /\ call.mpc[t] = "max_cas"
    /\ call' = [call EXCEPT
                   !.max_value = atomic_compare_exchange(
                                     @, call.mloc[t].max, call.mloc[t].value),
                   !.mloc[t].max = call.max_value,
                   !.cas_failed = @ \/ call.max_value # call.mloc[t].max,
                   !.mpc[t] = "max_load"]
    /\ UNCHANGED <<pvars, hvars, avars>>

\* the steps of one thread inside _atomic_update_min_max
update_min_max_step(t) ==
    \/ update_min_load(t)
    \/ update_min_cas(t)
    \/ update_max_load(t)
    \/ update_max_cas(t)

NextMinMax ==
    \/ \E t \in Threads, v \in MinMaxValues : update_min_max_begin(t, v)
    \/ \E t \in Threads : update_min_load(t)
    \/ \E t \in Threads : update_min_cas(t)
    \/ \E t \in Threads : update_max_load(t)
    \/ \E t \in Threads : update_max_cas(t)

SpecMinMax == InitMinMax /\ [][NextMinMax]_vars

\* every thread that is inside _atomic_update_min_max keeps running
SpecMinMaxFair ==
    SpecMinMax /\ \A t \in Threads : WF_vars(update_min_max_step(t))

(***************************************************************************)
(* hdr_histogram_log.c: reading the head of a log.  hdr_parse_log reads    *)
(* the leading comment lines with parse_log_comments, which scans each for *)
(* the format version, and goes on to the data lines.  A line is kept as   *)
(* its kind and, for a line that begins with the text of the version       *)
(* format up to the first %d, as the characters that follow.               *)
(***************************************************************************)
\* lines of a log file
MaxLogLines == 4

Digits == {"0", "1", "2"}

DigitValue(c) == IF c = "0" THEN 0 ELSE IF c = "1" THEN 1 ELSE 2

\* "#[Histogram log format version " followed by text
VersionLine(text) == [kind |-> "format", text |-> text]

\* the lines of the logs read: another comment, the version line of a
\* log of version 1.1, the one of the test (1.00), one of another major
\* version, one without a number, a blank line, and the column header
LogLines ==
    {[kind |-> "comment", text |-> <<>>],
     VersionLine(<<"1", ".", "1", "]">>),
     VersionLine(<<"1", ".", "0", "0", "]">>),
     VersionLine(<<"2", ".", "1", "]">>),
     VersionLine(<<"x", "]">>),
     [kind |-> "blank", text |-> <<>>],
     [kind |-> "data", text |-> <<>>]}

\* starts_with(s, '#'): the first character that is not white space is
\* '#', or there is none
is_comment(line) == line.kind \in {"comment", "format", "blank"}

RECURSIVE scan_digits(_, _, _)
\* the digits %d converts, from pos on
scan_digits(text, pos, value) ==
    IF pos <= Len(text) /\ text[pos] \in Digits
    THEN scan_digits(text, pos + 1, 10 * value + DigitValue(text[pos]))
    ELSE [status |-> "ok", value |-> value, next |-> pos]

\* one %d of sscanf at pos: the end of the input, no digit, or a number
scan_int(text, pos) ==
    IF pos > Len(text) THEN [status |-> "eof"]
    ELSE IF text[pos] \notin Digits THEN [status |-> "fail"]
    ELSE scan_digits(text, pos, 0)

\* sscanf(line, "#[Histogram log format version %d.%d]", &major_version,
\* &minor_version): the number of conversions and the header afterwards
scan_log_format(line, header) ==
    IF line.kind = "blank" THEN [ret |-> -1, header |-> header]
    ELSE IF line.kind # "format" THEN [ret |-> 0, header |-> header]
    ELSE LET major == scan_int(line.text, 1)
         IN  IF major.status = "eof" THEN [ret |-> -1, header |-> header]
             ELSE IF major.status = "fail"
             THEN [ret |-> 0, header |-> header]
             ELSE LET h1 == [header EXCEPT !.major_version = major.value]
                      minor == IF /\ major.next <= Len(line.text)
                                  /\ line.text[major.next] = "."
                               THEN scan_int(line.text, major.next + 1)
                               ELSE [status |-> "fail"]
                  IN  IF minor.status # "ok"
                      THEN [ret |-> 1, header |-> h1]
                      ELSE [ret |-> 2,
                            header |-> [h1 EXCEPT
                                           !.minor_version = minor.value]]

\* the logs read: every file of up to MaxLogLines lines
InitLog ==
    /\ hdr_writer_reader_phaser_init
    /\ HistFresh(<<3000, 3>>, FALSE)
    /\ AtomicInit
    /\ \E n \in 0..MaxLogLines :
          \E file \in [1..n -> LogLines] :
              call = [op |-> "log", file |-> file]

\* hdr_parse_log calls parse_log_comments, which clears the header
parse_log_comments_begin ==
    /\ call.op = "log"
    /\ call' = [op |-> "comments", file |-> call.file, pos |-> 1,
                header |-> [major_version |-> 0, minor_version |-> 0,
                            start_time_ms |-> 0]]
    /\ UNCHANGED <<pvars, hvars, avars>>

\* one pass of the loop of parse_log_comments: a comment line is scanned
\* (the result of the scan is not looked at), anything else ends the loop
parse_log_comments_line ==
    /\ call.op = "comments"
    /\ IF call.pos <= Len(call.file) /\ is_comment(call.file[call.pos])
       THEN call' = [call EXCEPT
                        !.header = scan_log_format(call.file[call.pos],
                                                   @).header,
                        !.pos = @ + 1]
       ELSE call' = [call EXCEPT !.op = "lines"]
    /\ UNCHANGED <<pvars, hvars, avars>>

\* hdr_parse_log after the comments: parse_lines(f, result); return 0;
hdr_parse_log_return ==
    /\ call.op = "lines"
    /\ call' = [op |-> "parsed", file |-> call.file,
                header |-> call.header, ret |-> 0]
    /\ UNCHANGED <<pvars, hvars, avars>>

NextLog ==
    \/ parse_log_comments_begin
    \/ parse_log_comments_line
    \/ hdr_parse_log_return

SpecLog == InitLog /\ [][NextLog]_vars

(***************************************************************************)
(* hdr_histogram.c: the iterators, call by call.  A program loads a        *)
(* histogram, initialises an iterator and calls its next function until    *)
(* and beyond the end.  call holds the struct hdrh_iter (or the struct     *)
(* hdrh_percentiles around it), what the last call returned, and the       *)
(* number of calls made after the first false.                             *)
(***************************************************************************)
\* calls of a next function made after it has returned false
MaxPastEnd == 2

\* the values recorded before iterating: the last one lies in bucket 1
IterValues == {0, 5, 2049}

\* load_histograms of a program that iterates afterwards
iter_load_value(value) ==
    /\ call.op = "none"
    /\ load_record_value(value)

\* struct hdrh_iter as hdrh_iter_init leaves it
iter_initial ==
    [bucket_index |-> 0, sub_bucket_index |-> -1, count_at_index |-> 0,
     count_to_index |-> 0, value_from_index |-> 0,
     highest_equivalent_value |-> 0]

hdrh_iter_init ==
    /\ call.op = "none"
    /\ ~aborted
    /\ call' = [op |-> "iter", iter |-> iter_initial, ret |-> "none",
                past_end |-> 0]
    /\ UNCHANGED <<pvars, hvars, avars>>

\* a cursor that starts every bucket at its sub-bucket 0
iter_advance_whole_bucket(hh, iter) ==
    IF iter.sub_bucket_index + 1 >= hh.sub_bucket_count
    THEN [iter EXCEPT !.sub_bucket_index = 0, !.bucket_index = @ + 1]
    ELSE [iter EXCEPT !.sub_bucket_index = @ + 1]

\* iter->sub_bucket_index++; if (iter->sub_bucket_index >= sub_bucket_count)
\* { iter->sub_bucket_index = sub_bucket_half_count; iter->bucket_index++; }
iter_advance(hh, iter) ==
    IF iter.sub_bucket_index + 1 >= hh.sub_bucket_count
    THEN [iter EXCEPT !.sub_bucket_index = hh.sub_bucket_half_count,
                      !.bucket_index = @ + 1]
    ELSE [iter EXCEPT !.sub_bucket_index = @ + 1]

\* the fields hdrh_iter_next fills in once the cursor stands at its new place
iter_read(hh, c, at) ==
    LET count_at_index ==
            CountAt(c, counts_index(hh, at.bucket_index, at.sub_bucket_index))
        value == value_from_index(at.bucket_index, at.sub_bucket_index)
    IN  [at EXCEPT
            !.count_at_index = count_at_index,
            !.count_to_index = @ + count_at_index,
            !.value_from_index = value,
            !.highest_equivalent_value = highest_equivalent_value(hh, value)]

\* hdrh_iter_next on the struct: <<return value, struct afterwards>>.  A
\* read beyond counts[counts_len - 1] would return whatever lies there; it
\* needs total_count above the sum of the counts, which no histogram of the
\* model has (IterStaysInside below).
iter_next_on(hh, c, tc, iter) ==
    IF ~has_next(iter.count_to_index, tc) THEN <<"false", iter>>
    ELSE CHOOSE r \in {<<"true", iter_read(hh, c, at)>> :
                          at \in {iter_advance(hh, iter)}} : TRUE

\* a call of hdrh_iter_next by the program
iter_next ==
    /\ call.op = "iter"
    /\ call.past_end < MaxPastEnd
    /\ LET r == iter_next_on(h, counts, total_count, call.iter)
       IN  call' = [call EXCEPT
                       !.iter = r[2], !.ret = r[1],
                       !.past_end = IF call.ret = "false" THEN @ + 1 ELSE @]
    /\ UNCHANGED <<pvars, hvars, avars>>

NextIter ==
    \/ \E v \in IterValues : iter_load_value(v)
    \/ hdrh_iter_init
    \/ iter_next

SpecIter == Init /\ [][NextIter]_vars

\* ticks_per_half_distance of the percentile iterators
Ticks == {1, 5}

\* the values recorded before iterating over percentiles; the walk from one
\* recorded index to the next is evaluated within one call
PercentileValues == {0, 5, 30}

\* load_histograms of a program that reads percentiles afterwards
percentiles_load_value(value) ==
    /\ call.op = "none"
    /\ load_record_value(value)

RECURSIVE GCD(_, _)
GCD(a, b) == IF b = 0 THEN a ELSE GCD(b, a % b)

\* the double 100 * p[1] / p[2], kept as the fraction p[1] / p[2] in lowest
\* terms.  The percentiles of the model are multiples of 100 / (5 * 2^k)
\* with small k, which doubles hold exactly.
Percent(num, den) == <<num \div GCD(num, den), den \div GCD(num, den)>>

RECURSIVE half_distance_from(_, _)
\* (int64_t) pow(2, (int64_t) (log(100 / (100.0 - p)) / log(2)) + 1) for
\* p below 100: the least power of two, from d on, above 100 / (100 - p)
half_distance_from(p, d) ==
    IF d * (p[2] - p[1]) > p[2] THEN d ELSE half_distance_from(p, 2 * d)

\* percentile_to_iterate_to += 100.0 / (ticks_per_half_distance *
\* half_distance)
next_level(p, ticks_per_half_distance) ==
    LET percentile_reporting_ticks ==
            ticks_per_half_distance * half_distance_from(p, 2)
    IN  Percent(p[1] * percentile_reporting_ticks + p[2],
                p[2] * percentile_reporting_ticks)

hdrh_percentiles_init(ticks_per_half_distance) ==
    /\ call.op = "none"
    /\ ~aborted
    /\ call' = [op |-> "percentiles", iter |-> iter_initial,
                ret |-> "none", past_end |-> 0,
                seen_last_value |-> FALSE,
                ticks_per_half_distance |-> ticks_per_half_distance,
                percentile_to_iterate_to |-> Percent(0, 1),
                percentile |-> Percent(0, 1),
                calls_at_end |-> 0]
    /\ UNCHANGED <<pvars, hvars, avars>>

RECURSIVE percentiles_do_while(_, _, _, _)
\* the do ... while (hdrh_iter_next(&percentiles->iter)) of
\* hdrh_percentiles_next and the return true after it: the struct
\* afterwards
percentiles_do_while(hh, c, tc, ps) ==
    LET to == ps.percentile_to_iterate_to
    IN  IF /\ ps.iter.count_at_index # 0
           /\ to[1] * tc <= ps.iter.count_to_index * to[2]
        THEN [ps EXCEPT
                 !.percentile = to,
                 !.percentile_to_iterate_to =
                     next_level(to, ps.ticks_per_half_distance),
                 !.ret = "true"]
        ELSE CHOOSE out \in
                 {IF r[1] = "true"
                  THEN percentiles_do_while(hh, c, tc,
                                            [ps EXCEPT !.iter = r[2]])
                  ELSE [ps EXCEPT !.ret = "true"] :
                      r \in {iter_next_on(hh, c, tc, ps.iter)}} : TRUE

\* an end that reports no final step
percentiles_last_value_silent(ps) == [ps EXCEPT !.ret = "false"]

\* hdrh_percentiles_next when has_next is false: the final step with
\* percentile = 100.0 once, false afterwards
percentiles_last_value(ps) ==
    IF ps.seen_last_value THEN [ps EXCEPT !.ret = "false"]
    ELSE [ps EXCEPT !.seen_last_value = TRUE,
                    !.percentile = Percent(1, 1), !.ret = "true"]

\* hdrh_percentiles_next on the struct
percentiles_next_on(hh, c, tc, ps) ==
    IF ~has_next(ps.iter.count_to_index, tc)
    THEN percentiles_last_value(ps)
    ELSE CHOOSE out \in
             {IF first[1] = "false" THEN [ps EXCEPT !.ret = "false"]
              ELSE percentiles_do_while(hh, c, tc,
                                        [ps EXCEPT !.iter = first[2]]) :
                  first \in {IF ps.iter.sub_bucket_index = -1
                             THEN iter_next_on(hh, c, tc, ps.iter)
                             ELSE <<"true", ps.iter>>}} : TRUE

\* a call of hdrh_percentiles_next by the program
percentiles_next ==
    /\ call.op = "percentiles"
    /\ call.past_end < MaxPastEnd
    /\ LET at_end == ~has_next(call.iter.count_to_index, total_count)
           ps == percentiles_next_on(h, counts, total_count, call)
       IN  call' = [ps EXCEPT
                       !.past_end = IF call.ret = "false" THEN @ + 1 ELSE @,
                       !.calls_at_end = IF at_end THEN @ + 1 ELSE @]
    /\ UNCHANGED <<pvars, hvars, avars>>

NextPercentiles ==
    \/ \E v \in PercentileValues : percentiles_load_value(v)
    \/ \E t \in Ticks : hdrh_percentiles_init(t)
    \/ percentiles_next

\* the program calls hdrh_percentiles_next in a loop
SpecPercentiles ==
    Init /\ [][NextPercentiles]_vars /\ WF_vars(percentiles_next)

\* the level to iterate to stays below 100%, where its next step is defined
PercentileBelow100 ==
    call.op = "percentiles" =>
        call.percentile_to_iterate_to[1] < call.percentile_to_iterate_to[2]

\* the cursor never leaves the counts array
IterStaysInside ==
    call.op = "iter" /\ call.ret = "true" =>
        counts_index(h, call.iter.bucket_index, call.iter.sub_bucket_index)
            \in 0..(h.counts_len - 1)

(***************************************************************************)
(* Claims about the phaser and the interval recorder                       *)
(***************************************************************************)

\* C1 (phaser drain): when flip_phase has returned, every writer whose
\* writer_enter took effect before the flip exchanged start_epoch has
\* completed writer_exit.  owed[r] holds the writers that were inside their
\* critical section at r's exchange and have not exited since.
DrainAtFlipReturn ==
    \A r \in Readers : rpc[r] = "flipped" => owed[r] = {}

\* C2 (interval recorder quiescence): once sample has returned histogram H,
\* no update that loaded H as the active histogram is between its
\* writer_enter and its writer_exit, until a later sample makes H active.
\* H is the last histogram returned, and it is not r->active.
SampleQuiescent ==
    \A w \in Writers :
        wpc[w] \in {"loaded", "acted"} =>
            ~(/\ Len(retHist) > 0
              /\ retHist[Len(retHist)] = wactive[w]
              /\ active # wactive[w])

FlipReturnsOnceWritersLeft ==
    \A r \in Readers :
        (rpc[r] = "f_spin" /\ InCritical = {}) => caught_up(r)

\* C5 (phase sign): a token issued by a writer_enter after flip_phase has
\* returned, and before the next flip, has the sign opposite to that of the
\* phase the flip ended.
TokenSignAfterFlip ==
    \A w \in Writers :
        wpc[w] # "idle" =>
            /\ wmark[w].expect = "neg" => I64Neg(val[w])
            /\ wmark[w].expect = "nonneg" => ~I64Neg(val[w])

\* C6 (writers never wait): in every reachable state each writer's next step
\* of hdr_interval_recorder_update (writer_enter, the load, update_action,
\* writer_exit) is enabled, whatever the readers are doing.  (The model stops
\* admitting new calls after MaxEnter of them.)
WritersNeverWait ==
    \A w \in Writers :
        (wpc[w] # "idle" \/ nEnter < MaxEnter)
            => ENABLED hdr_interval_recorder_update(w)

\* C6 witness: a writer entered, loaded and ran its action while a sample
\* that holds the reader mutex was in progress and is now spinning in
\* flip_phase.
WritersNeverWaitWitness ==
    \E w \in Writers, r \in Readers :
        /\ rpc[r] = "f_spin"
        /\ reader_mutex = r
        /\ ~caught_up(r)
        /\ wpc[w] = "acted"
        /\ wmark[w].called = sCalled
        /\ wmark[w].returned < sCalled

(***************************************************************************)
(* Claims about recording                                                  *)
(***************************************************************************)

\* C7 (total count consistency): after any sequence of record and
\* record_corrected calls on a fresh histogram, total_count is the number of
\* recordings stored, it is the sum of all counts, and no count is negative.
TotalCountConsistent ==
    /\ total_count = stored
    /\ total_count = SumCounts(counts, DOMAIN counts)
    /\ \A i \in DOMAIN counts : counts[i] >= 0

\* C7 witness: a record call and then a record_corrected call that stored
\* several recordings at more than one index.
TotalCountWitness ==
    /\ hcalls >= 2
    /\ last.op = "record_corrected"
    /\ last.ret = "true"
    /\ stored >= 4
    /\ Cardinality(DOMAIN counts) >= 2

\* C8 (atomic increments): once every _atomic_increment call has completed,
\* counts[i] is the sum of the amounts applied to i, for every i, and
\* total_count is the sum of all counts.
AtomicIncrementsExact ==
    (\A t \in Threads : apc[t] = "idle") =>
        /\ \A i \in Indices : acounts[i] = issued[i]
        /\ atotal = SumCounts(acounts, Indices)

\* C8 witness: all calls have completed, on both indices, after two threads
\* were between their two adds at once.
AtomicIncrementsWitness ==
    /\ \A t \in Threads : apc[t] = "idle"
    /\ overlap
    /\ nInc = MaxInc
    /\ \A i \in Indices : acounts[i] > 0
    /\ atotal > MaxInc

\* C9 (record's result): record(v) returns false and changes no count and
\* not total_count when v < 0 or v > highest_trackable_value; for every other
\* v it returns true and adds one to exactly one count and to total_count.
RecordContract ==
    [][(hcalls' = hcalls + 1 /\ last'.op = "record") =>
          IF last'.value < 0 \/ last'.value > h.highest_trackable_value
          THEN /\ last'.ret = "false"
               /\ counts' = counts
               /\ total_count' = total_count
          ELSE /\ last'.ret = "true"
               /\ total_count' = total_count + 1
               /\ \E i \in DOMAIN counts' : counts' = Bump(counts, i)]_vars

\* C10 (no assertion fails): no call to record(v) violates an assertion of
\* counts_index.
NoAssertionFails == ~assertFailed

\* C11 (record_corrected): for a value v in [0, highest_trackable_value] and
\* an expected interval e > 0, record_corrected(v, e) returns true, adds
\* max(1, v div e) to total_count, and adds to each count the number of
\* the values v, v - e, v - 2e, ... (down to the last one >= e, or v alone
\* when v <= e) that fall on its index.
RecordCorrectedCount ==
    [][(/\ hcalls' = hcalls + 1
        /\ last'.op = "record_corrected"
        /\ last'.interval > 0
        /\ last'.value >= 0
        /\ last'.value <= h.highest_trackable_value) =>
          LET v == last'.value
              e == last'.interval
              n == IF v \div e > 1 THEN v \div e ELSE 1
          IN  /\ last'.ret = "true"
              /\ total_count' = total_count + n
              /\ \A i \in (DOMAIN counts) \cup (DOMAIN counts') :
                    CountAt(counts', i) = CountAt(counts, i)
                        + Cardinality({k \in 0..(n - 1) :
                              counts_index_for(h, v - k * e) = i})]_vars

\* C11 witness: record_corrected(3000, 1000) on a fresh histogram has
\* returned true and stored the three recordings 3000, 2000 and 1000.
RecordCorrectedWitness ==
    /\ hcalls = 1
    /\ last = [op |-> "record_corrected", value |-> 3000,
               interval |-> 1000, ret |-> "true"]
    /\ total_count = 3
    /\ Cardinality(DOMAIN counts) >= 2

\* C12 (value at percentile): on a non-empty histogram value_at_percentile(p)
\* returns the highest equivalent value of the first counts index at which
\* the cumulative count reaches round(p/100 * total_count) (at least one
\* recording), p above 100 counting as 100; on an empty histogram it
\* returns 0.
ValueAtPercentileContract ==
    query.op = "value_at_percentile" =>
        IF total_count = 0 THEN query.result = 0
        ELSE LET p == IF query.arg < 100 THEN query.arg ELSE 100
                 rounded == (2 * p * total_count + 100) \div 200
                 target == IF rounded > 1 THEN rounded ELSE 1
                 reached ==
                     {i \in DOMAIN counts :
                         SumCounts(counts, {j \in DOMAIN counts : j <= i})
                             >= target}
                 first == CHOOSE i \in reached : \A j \in reached : i <= j
             IN  query.result =
                     highest_equivalent_value(h,
                         value_from_index(iter_bucket_index(h, first),
                                          iter_sub_bucket_index(h, first)))

\* C13 (percentile monotonicity): in any histogram reached by record calls,
\* for p1 <= p2 in [0, 100], value_at_percentile(p1) <= value_at_percentile(p2).
\* The result of the last query is compared with the value at every other
\* percentile of the same histogram.
PercentileMonotone ==
    (query.op = "value_at_percentile" /\ query.arg <= 100) =>
        \A p \in {x \in Percentiles : x <= 100} :
            LET v == hdrh_value_at_percentile(h, counts, total_count, p)
            IN  /\ p <= query.arg => v <= query.result
                /\ query.arg <= p => query.result <= v

\* C13 witness: a histogram holding several recordings at several indices
\* was asked for its value at 100 percent, which is above its value at 0
\* and at 50 percent.
PercentileMonotoneWitness ==
    /\ query.op = "value_at_percentile"
    /\ query.arg = 100
    /\ total_count >= 3
    /\ hdrh_value_at_percentile(h, counts, total_count, 0)
          < hdrh_value_at_percentile(h, counts, total_count, 50)
    /\ hdrh_value_at_percentile(h, counts, total_count, 50) < query.result

\* C14 (min and max): once values have been recorded, max() is equivalent
\* to the largest value recorded, min() is the lowest equivalent value of
\* the smallest value recorded, and min() <= max().
MinMaxContract ==
    recorded # {} =>
        LET largest == CHOOSE v \in recorded : \A w \in recorded : w <= v
            smallest == CHOOSE v \in recorded : \A w \in recorded : v <= w
        IN  /\ query.op = "max" =>
                  /\ hdrh_values_are_equivalent(h, query.result, largest)
                  /\ hdrh_min(h, counts, total_count) <= query.result
            /\ query.op = "min" =>
                  /\ query.result = lowest_equivalent_value(h, smallest)
                  /\ query.result <= hdrh_max(h, counts, total_count)

\* C14 witness: max() was asked of a histogram holding at least two values,
\* the largest of which shares its index with lower values, and min() of the
\* same histogram is lower.
MinMaxWitness ==
    /\ query.op = "max"
    /\ Cardinality(recorded) >= 2
    /\ \E v \in recorded : query.result < v
    /\ 0 < hdrh_min(h, counts, total_count)
    /\ hdrh_min(h, counts, total_count) < query.result

(***************************************************************************)
(* Claims about the value ranges                                           *)
(***************************************************************************)

\* C15 (equivalence range closure): for every v in [0, highest_trackable_value],
\* lowest_equivalent(v) <= v <= highest_equivalent(v), and
\* lowest_equivalent(highest_equivalent(v)) = lowest_equivalent(v).
EquivalentRangeClosed ==
    call.op = "equivalent_range" =>
        /\ call.lowest <= call.a
        /\ call.a <= call.highest
        /\ call.lowest_of_highest = call.lowest

\* C15 witness: a value strictly inside a range of several values.
EquivalentRangeWitness ==
    /\ call.op = "equivalent_range"
    /\ call.lowest < call.a
    /\ call.a < call.highest

\* C16 (equivalence and index): for a, b in [0, highest_trackable_value],
\* values_are_equivalent(a, b) holds exactly when a and b have the same counts
\* index, and that index is in [0, counts_len).
EquivalentIffSameIndex ==
    call.op = "equivalent_range" =>
        /\ call.equivalent <=> (call.index_a = call.index_b)
        /\ 0 <= call.index_a /\ call.index_a < h.counts_len
        /\ 0 <= call.index_b /\ call.index_b < h.counts_len

\* C16 witness: two different values found equivalent, on one index above
\* the first bucket.
EquivalentIffWitness ==
    /\ call.op = "equivalent_range"
    /\ call.a # call.b
    /\ call.equivalent
    /\ call.index_a = call.index_b
    /\ call.index_a >= h.sub_bucket_count

\* C17 (bounded relative precision): for every accepted significant_figures
\* sf and every v in [1, highest_trackable_value], the size of v's equivalent
\* range is 1 or size * 10^sf <= v.
RelativePrecision ==
    (call.op = "equivalent_range" /\ call.a >= 1) =>
        \/ call.size = 1
        \/ call.size * power(10, h.significant_figures) <= call.a

\* C17 witness: a range of several values in a histogram of more than three
\* significant figures.
RelativePrecisionWitness ==
    /\ call.op = "equivalent_range"
    /\ h.significant_figures > 3
    /\ call.size > 1
    /\ call.size * power(10, h.significant_figures) <= call.a

(***************************************************************************)
(* Claims about allocation                                                 *)
(***************************************************************************)

\* C18 (invalid significant figures): allocation with significant_figures
\* outside 1..5 returns EINVAL, allocates nothing and leaves *result NULL;
\* with significant_figures in 1..5 (and memory available) it succeeds.
AllocContract ==
    call.op = "hdrh_alloc" =>
        IF call.significant_figures \in 1..5
        THEN call.malloc_ok => (call.rc = 0 /\ call.allocated)
        ELSE call.rc = EINVAL /\ ~call.allocated

(***************************************************************************)
(* Claims about the binary codec                                           *)
(***************************************************************************)
\* C19: for any histogram reachable by record calls, decoding what
\* hdr_encode_compressed produced succeeds and yields a histogram of the
\* same geometry (significant figures, trackable bounds, counts_len), the
\* same total_count and the same count at every index, whatever counts_len
\* is.
BinaryRoundTrip ==
    call.op = "decoded" =>
        /\ call.encoded.ret = 0
        /\ call.result.ret = 0
        /\ call.result.stored
        /\ call.result.h.significant_figures = h.significant_figures
        /\ call.result.h.lowest_trackable_value = h.lowest_trackable_value
        /\ call.result.h.highest_trackable_value
               = h.highest_trackable_value
        /\ call.result.h.counts_len = h.counts_len
        /\ call.result.total_count = total_count
        /\ call.result.counts = counts

(***************************************************************************)
(* Claims about the base64 codec                                           *)
(***************************************************************************)
\* C20: for every byte string x, of any length, base64_decode applied to
\* the output of base64_encode(x) returns success and yields exactly x.
Base64RoundTrip ==
    call.op = "base64_decode" =>
        /\ call.rc = 0
        /\ call.output = call.input

(***************************************************************************)
(* Claims settled last                                                     *)
(***************************************************************************)
\* C22: hdr_interval_recorder_sample holds the reader mutex from before the
\* swap until flip_phase has returned, and has released it when it returns:
\* while no sample call is in progress the reader mutex is free, and at most
\* one thread is inside the swap-and-flip section.
SampleHoldsThenFreesMutex ==
    /\ \A r \in Readers : rpc[r] # "idle" => reader_mutex = r
    /\ (\A r \in Readers : rpc[r] = "idle") => reader_mutex = "free"
    /\ Cardinality({r \in Readers : rpc[r] # "idle"}) <= 1

\* C28: the odd phase's sentinel is INT64_MIN (0x8000000000000000): init
\* leaves start_epoch = 0, even_end_epoch = 0 and odd_end_epoch = INT64_MIN,
\* and the value flip_phase gives the incoming phase's end epoch and then
\* start_epoch is INT64_MIN for the odd phase (start_epoch >= 0 on entry)
\* and 0 for the even phase (start_epoch < 0 on entry).
OddSentinelIsInt64Min ==
    /\ (nEnter = 0 /\ nFlip = 0) =>
          /\ start_epoch = I64Zero
          /\ even_end_epoch = I64Zero
          /\ odd_end_epoch = <<Limb \div 2, 0, 0, 0>>
    /\ \A r \in Readers :
          rpc[r] \in {"f_set", "f_reset", "f_cas", "f_spin", "flipped"} =>
              /\ rloc[r].next_phase_is_even = I64Neg(rloc[r].start_epoch)
              /\ rloc[r].initial_start_value =
                     IF I64Neg(rloc[r].start_epoch) THEN I64Zero
                     ELSE <<Limb \div 2, 0, 0, 0>>

\* C29: while flip_phase is waiting, the outgoing phase's end-epoch counter
\* is at most the start value S captured at the exchange (as signed 64-bit
\* numbers), and it equals S exactly when every writer that was between
\* writer_enter and writer_exit at the exchange has exited: exits are only
\* credited to the phase whose tokens their writers hold, so the counter
\* never steps past S.
PhaserCounting ==
    \A r \in Readers :
        rpc[r] = "f_spin" =>
            LET end_epoch == IF rloc[r].next_phase_is_even
                             THEN odd_end_epoch ELSE even_end_epoch
                S == rloc[r].start_value_at_flip
                Key(x) == <<(x[1] + Limb \div 2) % Limb, x[2], x[3], x[4]>>
                Leq(a, b) ==
                    \/ a = b
                    \/ \E i \in 1..4 :
                          /\ \A j \in 1..(i - 1) : Key(a)[j] = Key(b)[j]
                          /\ Key(a)[i] < Key(b)[i]
            IN  /\ Leq(end_epoch, S)
                /\ (end_epoch = S) <=> (owed[r] = {})

\* C30: with positive increments, in every state of every interleaving of
\* concurrent _atomic_increment calls total_count is at most the sum of the
\* counts, and the difference is the sum of the amounts of the calls that
\* are between their two atomic adds.
AtomicTotalTrailsCounts ==
    LET in_flight == [t \in Threads |->
                         IF apc[t] = "counted" THEN aarg[t].value ELSE 0]
    IN  /\ atotal <= SumCounts(acounts, Indices)
        /\ SumCounts(acounts, Indices) - atotal = SumCounts(in_flight, Threads)

\* C30 witness: both threads are between their two adds, with different
\* amounts on different indices, after an earlier call has completed.
AtomicTotalTrailsWitness ==
    /\ \A t \in Threads : apc[t] = "counted"
    /\ \E t, u \in Threads : /\ aarg[t].value # aarg[u].value
                             /\ aarg[t].index # aarg[u].index
    /\ atotal > 0
    /\ SumCounts(acounts, Indices) - atotal = 3

\* the signed maximum and minimum of a non-empty set of int64_t
I64MaxOf(S) == CHOOSE x \in S : \A y \in S : ~I64Less(x, y)
I64MinOf(S) == CHOOSE x \in S : \A y \in S : ~I64Less(y, x)

\* C23: for any interleaving of concurrent _atomic_update_min_max(v) calls,
\* every call returns; when all calls have returned max_value is the maximum
\* of its initial value and all v and min_value is the minimum of its
\* initial value and all non-zero v; and in every step max_value does not
\* decrease and min_value does not increase.
AtomicMinMax ==
    /\ \A t \in Threads : (call.mpc[t] # "idle") ~> (call.mpc[t] = "idle")
    /\ []((\A t \in Threads : call.mpc[t] = "idle") =>
             /\ call.max_value =
                    I64MaxOf({call.initial.max_value} \cup call.given)
             /\ call.min_value =
                    I64MinOf({call.initial.min_value}
                             \cup (call.given \ {I64Zero})))
    /\ [][/\ ~I64Less(call'.max_value, call.max_value)
          /\ ~I64Less(call.min_value, call'.min_value)]_vars

\* C23 witness: all calls have returned, zero was among the values, both
\* extrema moved, and a compare-and-swap failed because another thread had
\* changed the extremum in between.
AtomicMinMaxWitness ==
    /\ \A t \in Threads : call.mpc[t] = "idle"
    /\ call.nCalls = MaxMinMaxCalls
    /\ I64Zero \in call.given
    /\ call.cas_failed
    /\ call.max_value # call.initial.max_value
    /\ call.min_value # call.initial.min_value

\* C25: each call of hdrh_iter_next that returns true moves the cursor to
\* the next counts index, whose value is higher than the one before, and
\* adds the count at that index to count_to_index; once a call has returned
\* false (count_to_index >= total_count) every further call returns false
\* and changes no field of the cursor.
IterSinglePass ==
    [][(call.op = "iter" /\ call'.op = "iter") =>
          LET index_of(iter) == counts_index(h, iter.bucket_index,
                                             iter.sub_bucket_index)
          IN  /\ call'.ret = "true" =>
                    /\ index_of(call'.iter) = index_of(call.iter) + 1
                    /\ call.ret = "true" =>
                           call'.iter.value_from_index
                               > call.iter.value_from_index
                    /\ call'.iter.count_at_index
                           = CountAt(counts, index_of(call'.iter))
                    /\ call'.iter.count_to_index
                           = call.iter.count_to_index
                                 + CountAt(counts, index_of(call'.iter))
              /\ call'.ret = "false" =>
                    /\ call'.iter = call.iter
                    /\ call.iter.count_to_index >= total_count
              /\ call.ret = "false" => call'.ret = "false"]_vars

\* C25 witness: the iterator has walked into bucket 1, returned false, and
\* has been called twice more.
IterSinglePassWitness ==
    /\ call.op = "iter"
    /\ call.ret = "false"
    /\ call.past_end = MaxPastEnd
    /\ call.iter.bucket_index = 1
    /\ call.iter.count_at_index > 0
    /\ call.iter.count_to_index = total_count
    /\ total_count = MaxLoad

\* C24: of the calls of hdrh_percentiles_next made once the cursor's
\* count_to_index has reached total_count, the first returns true with
\* percentile = 100.0 and every later one returns false; and the iterator
\* of a non-empty histogram reaches that point after finitely many calls.
PercentilesEndProtocol ==
    /\ [](call.op = "percentiles" =>
             /\ call.calls_at_end = 1 =>
                    /\ call.ret = "true"
                    /\ call.percentile = Percent(1, 1)
             /\ call.calls_at_end > 1 => call.ret = "false"
             /\ call.calls_at_end = 0 => call.ret # "false")
    /\ [][(call.op = "percentiles" /\ call.ret = "false") =>
              call'.ret = "false"]_vars
    /\ (call.op = "percentiles" /\ total_count > 0) ~>
           (call.op = "percentiles"
                /\ call.iter.count_to_index >= total_count)

\* C24 witness: a histogram with two recorded indices has been iterated through several percentile levels to the
\* end, has returned 100.0 once and false twice after it.
PercentilesEndWitness ==
    /\ call.op = "percentiles"
    /\ call.ret = "false"
    /\ call.calls_at_end = 3
    /\ call.percentile = Percent(1, 1)
    /\ call.iter.sub_bucket_index = 30
    /\ call.iter.count_at_index < total_count
    /\ call.ticks_per_half_distance = 5
    /\ 2 * call.percentile_to_iterate_to[1] > call.percentile_to_iterate_to[2]

\* C26: what hdr_encode_compressed has fed to deflate when it returns is
\* 32 + 8 * counts_len bytes: the encoding flyweight, then exactly the
\* counts_len counts of the histogram, big-endian and in index order: no
\* entry beyond counts_len and none left from an earlier chunk.
EncodedStreamExact ==
    call.op = "encoded" =>
        LET data == call.data
            at(k, j) == (k - 2) * counts_per_chunk + j
        IN  /\ call.total_in
                   = encoding_flyweight_size + word_size * h.counts_len
            /\ Len(data) >= 1
            /\ "header" \in DOMAIN data[1]
            /\ \A k \in 2..Len(data) :
                  /\ "counts" \in DOMAIN data[k]
                  /\ \A j \in DOMAIN data[k].counts :
                        /\ at(k, j) < h.counts_len
                        /\ be64toh(data[k].counts[j])
                               = CountAt(counts, at(k, j))
            /\ \A i \in DOMAIN counts :
                  \E k \in 2..Len(data) :
                      /\ "counts" \in DOMAIN data[k]
                      /\ \E j \in DOMAIN data[k].counts : at(k, j) = i

\* C27: when hdr_decode_compressed fails (short buffer, *result not NULL,
\* compression or encoding cookie mismatch, inflateInit or inflate failure,
\* allocation failure) it returns the error code of that failure, does not
\* store to *result, and passes to free nothing but the histogram this call
\* allocated.
DecodeFailsCleanly ==
    call.op = "decode_tried" =>
        LET r == call.result
            code == [fault \in DecodeFaults \ {"none", "inflate_loop"} |->
                        CASE fault \in {"short_length", "result_not_null"}
                                 -> EINVAL
                          [] fault = "compression_cookie"
                                 -> HDR_COMPRESSION_COOKIE_MISMATCH
                          [] fault = "encoding_cookie"
                                 -> HDR_ENCODING_COOKIE_MISMATCH
                          [] fault = "inflateInit" -> HDR_INFLATE_INIT_FAIL
                          [] fault = "inflate_first" -> HDR_INFLATE_FAIL
                          [] fault = "hdr_init" -> ENOMEM]
        IN  /\ call.fault \in DOMAIN code => r.ret = code[call.fault]
            /\ call.fault = "inflate_loop" => r.ret = HDR_INFLATE_FAIL
            /\ r.ret # 0 => /\ ~r.stored
                            /\ r.freed \in {"none", "h"}

\* C21: reading the head of a log fails (HDR_LOG_INVALID_VERSION, which is
\* not 0) when the version line is absent, when it has no number or is
\* malformed like 1.00, or when its major version is not 1; and it
\* succeeds with major_version = 1 and minor_version = 1 for the head of a
\* log of version 1.1.  Stated for logs with at most one version line
\* among the leading comments.
LogVersionChecked ==
    call.op = "parsed" =>
        LET head == {i \in 1..Len(call.file) :
                        \A j \in 1..i : is_comment(call.file[j])}
            version == {i \in head : call.file[i].kind = "format"}
        IN  Cardinality(version) <= 1 =>
                IF \E i \in version :
                       call.file[i].text = <<"1", ".", "1", "]">>
                THEN /\ call.ret = 0
                     /\ call.header.major_version = 1
                     /\ call.header.minor_version = 1
                ELSE call.ret # 0

====
